---- MODULE Spec2Model ----
(***************************************************************************)
(* Model of the data generators of AviseInc/bi-coding-challenge:           *)
(*   backend/scripts/generateData.ts and backend/scripts/makeFakeData.ts.  *)
(* The generators build a chart of accounts, fiscal periods and journal    *)
(* entries in memory and persist them with createMany({skipDuplicates}).   *)
(* The last sections model backend/scripts/setupHelper/apiSetupHelper.ts,  *)
(* the script that sets up the local API.                                  *)
(***************************************************************************)
EXTENDS Integers, Sequences, FiniteSets, TLC

VARIABLES
    script,       \* which script runs: "generateData" or "makeFakeData"
    now,          \* DateTime.utc() of the run: [y, m, d, ms]
    company,      \* the company a per-company function works on
    startYear,    \* createPeriodsForCompany: first year
    endYear,      \* createPeriodsForCompany: last year
    year,         \* createPeriodsForCompany: loop variable year
    month,        \* createPeriodsForCompany: loop variable month
    quarter,      \* createPeriodsForCompany: loop variable quarter
    periods,      \* createPeriodsForCompany: const periods = []
    pcPeriods,    \* position in createPeriodsForCompany
    tape,         \* the values the random generators will return, in order
    pos,          \* number of random values drawn so far, modulo Len(tape)
    companyIdx,   \* createAccounts: index of the company in the loop
    numAccounts,  \* createAccountsForCompany: const numAccounts
    classIdx,     \* createAccountsForCompany: index in the classification loop
    accounts,     \* createAccountsForCompany: const accounts = []
    parentAccounts, \* createAccountsForCompany: const parentAccounts = []
    allAccounts,  \* createAccounts: const allAccounts = []
    pcAccounts,   \* position in createAccounts / createAccountsForCompany
    jsonMode,     \* createJournalEntries: the --json flag
    allPeriodsSorted, \* createJournalEntries: const allPeriodsSorted
    rpos,         \* per run: number of random values drawn, modulo Len(tape)
    globalDisplayId, \* per run: let globalDisplayId = 1
    periodIdx,    \* per run: index in allPeriodsSorted of the period loop
    numEntries,   \* per run: const numEntries of the period
    entryIdx,     \* per run: loop variable i of the entry loop
    allJournalEntries, \* per run: const allJournalEntries = []
    allJournalLines,   \* per run: const allJournalLines = []
    allJournalLineDimensions, \* per run: const allJournalLineDimensions
    pc,           \* per run: position in createJournalEntries
    dbJournalEntries, \* table journal_entries
    dbJournalLines,   \* table journal_lines
    dbJournalLineDimensions, \* table journal_line_dimensions
    callIdx,      \* createPeriods: which call of it runs, 1 or 2
    allPeriods,   \* per call of createPeriods: const allPeriods
    pcCreatePeriods, \* position in createPeriods
    dbPeriods,    \* table periods
    gen,          \* main of generateData.ts: its locals, the tables it writes
    helper,       \* apiSetupHelper.ts: position, answers, containers, tables
    amounts,      \* createRandomJournalLines: numLines, totalAmount, the amounts
    waiter        \* waitForDockerContainerToBeRunning: its locals and its timer

periodVars == <<startYear, endYear, year, month, quarter, periods, pcPeriods>>
accountVars == <<tape, pos, companyIdx, numAccounts, classIdx, accounts,
                 parentAccounts, allAccounts, pcAccounts>>
runVars == <<rpos, globalDisplayId, periodIdx, numEntries, entryIdx,
             allJournalEntries, allJournalLines, allJournalLineDimensions, pc>>
dbVars == <<dbJournalEntries, dbJournalLines, dbJournalLineDimensions>>
journalVars == <<jsonMode, allPeriodsSorted, runVars, dbVars>>
createPeriodsVars == <<callIdx, allPeriods, pcCreatePeriods, dbPeriods>>
vars == <<script, now, company, periodVars, accountVars, journalVars, createPeriodsVars,
          gen, helper, amounts, waiter>>

\* the state of the functions a run of the other functions leaves alone
otherThanPeriods == <<accountVars, journalVars, createPeriodsVars, gen, helper, amounts, waiter>>
otherThanAccounts == <<periodVars, journalVars, createPeriodsVars, gen, helper, amounts, waiter>>
otherThanJournal == <<script, now, company, periodVars, tape, pos, companyIdx,
                      numAccounts, classIdx, accounts, parentAccounts, allAccounts,
                      pcAccounts, createPeriodsVars, gen, helper, amounts, waiter>>
otherThanCreatePeriods == <<script, company, periodVars, accountVars, journalVars,
                            gen, helper, amounts, waiter>>
otherThanGen == <<script, now, company, periodVars, accountVars, journalVars,
                  createPeriodsVars, helper, amounts, waiter>>
otherThanHelper == <<script, now, company, periodVars, accountVars, journalVars,
                     createPeriodsVars, gen, amounts, waiter>>
otherThanAmounts == <<script, now, company, periodVars, accountVars, journalVars,
                      createPeriodsVars, gen, helper, waiter>>
otherThanWaiter == <<script, now, company, periodVars, accountVars, journalVars,
                     createPeriodsVars, gen, helper, amounts>>

----------------------------------------------------------------------------
(* Bounds of the model *)

\* number of years after 2023 that --fiscalYears may name
YearSpan == 2

\* length of the sequence of random values a run draws from, cyclically
TapeLen == 4

\* number of companies createAccounts loops over
NumCompanies == 2

\* --entries "min,max": journal entries per period
MinEntriesArg == 1
MaxEntriesArg == 2

\* values createDimensionValuesForDimension makes for each dimension
ValuesPerDimension == 2

\* periods passed to each of two concurrent calls of createJournalEntries
RacePeriods == 6

----------------------------------------------------------------------------
(* Enumerations of schema.prisma *)

BasePeriod == {"Month", "Quarter"}

PeriodStatus == {"open", "closed"}

Scripts == {"generateData", "makeFakeData"}

----------------------------------------------------------------------------
(* luxon calendar arithmetic on UTC dates.  A date is a day number (days   *)
(* since 1970-01-01); an instant is [day, ms] with ms the millisecond of   *)
(* the day.                                                                *)

IsLeapYear(y) == (y % 4 = 0 /\ y % 100 # 0) \/ y % 400 = 0

DaysInMonth(y, m) ==
    IF m = 2 THEN (IF IsLeapYear(y) THEN 29 ELSE 28)
    ELSE IF m \in {4, 6, 9, 11} THEN 30 ELSE 31

RECURSIVE DaysBeforeMonth(_, _)
DaysBeforeMonth(y, m) ==
    IF m = 1 THEN 0 ELSE DaysBeforeMonth(y, m - 1) + DaysInMonth(y, m - 1)

LeapsBefore(y) == ((y - 1) \div 4) - ((y - 1) \div 100) + ((y - 1) \div 400)

\* DateTime.utc(y, m, d) as a day number
DayNumber(y, m, d) ==
    365 * (y - 1970) + (LeapsBefore(y) - LeapsBefore(1970))
        + DaysBeforeMonth(y, m) + (d - 1)

\* DateTime.utc(year, month, 1).startOf("month")
StartOfMonth(y, m) == [day |-> DayNumber(y, m, 1), ms |-> 0]

\* a slip for endOf("month"): startDate.plus({ days: 30 })
EndOfMonthPlus30(y, m) == [day |-> DayNumber(y, m, 1) + 30, ms |-> 86399999]

\* dt.endOf("month"): the last millisecond of the month
EndOfMonth(y, m) == [day |-> DayNumber(y, m, DaysInMonth(y, m)), ms |-> 86399999]

\* dt.minus({ days: n })
MinusDays(dt, n) == [dt EXCEPT !.day = @ - n]

\* dt.startOf("day")
StartOfDay(dt) == [dt EXCEPT !.ms = 0]

\* dt.endOf("day").startOf("second")
EndOfDaySecond(dt) == [dt EXCEPT !.ms = 86399000]

\* dt.weekday: 1 is Monday, 7 is Sunday (1970-01-01 was a Thursday)
Weekday(dt) == ((dt.day + 3) % 7) + 1

\* dt.isWeekend
IsWeekend(dt) == Weekday(dt) \in {6, 7}

\* a slip: <= instead of <
NotAfter(a, b) == a.day < b.day \/ (a.day = b.day /\ a.ms <= b.ms)

\* a < b on instants
Before(a, b) == a.day < b.day \/ (a.day = b.day /\ a.ms < b.ms)

\* the instant of the run's clock
NowInstant == [day |-> DayNumber(now.y, now.m, now.d), ms |-> now.ms]

\* startDate.toFormat("MMM")
MonthAbbrev(m) ==
    <<"Jan", "Feb", "Mar", "Apr", "May", "Jun",
      "Jul", "Aug", "Sep", "Oct", "Nov", "Dec">>[m]

----------------------------------------------------------------------------
(* Period generation *)

\* generateData.ts nearestPreviousBusinessDay: walk back to a non-weekend day
RECURSIVE WalkBack(_)
WalkBack(currentDate) ==
    IF IsWeekend(currentDate) THEN WalkBack(MinusDays(currentDate, 1))
    ELSE currentDate

\* a slip: the walk back is left out
NoWalkBack(date) == StartOfDay(date)

nearestPreviousBusinessDay(date) ==
    LET currentDate == StartOfDay(date)
    IN  IF ~IsWeekend(currentDate) THEN currentDate ELSE WalkBack(currentDate)

\* generateData.ts: the period record of one month
MonthlyPeriod(c, y, m) ==
    LET startDate == StartOfMonth(y, m)
        endDate == EndOfMonth(y, m)
        oneWeekBeforeEnd == MinusDays(endDate, 7)
        targetCloseDate == nearestPreviousBusinessDay(oneWeekBeforeEnd)
    IN  [companyId |-> c.id,
         displayName |-> <<MonthAbbrev(m), y>>,
         startsOn |-> StartOfDay(startDate),
         endsOn |-> EndOfDaySecond(endDate),
         targetClose |-> EndOfDaySecond(targetCloseDate),
         status |-> IF Before(endDate, NowInstant) THEN "closed" ELSE "open"]

\* generateData.ts: the period record of one quarter
QuarterName(q) == <<"Q1", "Q2", "Q3", "Q4">>[q]

QuarterlyPeriod(c, y, q) ==
    LET startMonth == (q - 1) * 3 + 1
        endMonth == startMonth + 2
        startDate == StartOfMonth(y, startMonth)
        endDate == EndOfMonth(y, endMonth)
        oneWeekBeforeEnd == MinusDays(endDate, 7)
        targetCloseDate == nearestPreviousBusinessDay(oneWeekBeforeEnd)
    IN  [companyId |-> c.id,
         displayName |-> <<QuarterName(q), y>>,
         startsOn |-> StartOfDay(startDate),
         endsOn |-> EndOfDaySecond(endDate),
         targetClose |-> EndOfDaySecond(targetCloseDate),
         status |-> IF Before(endDate, NowInstant) THEN "closed" ELSE "open"]

\* makeFakeData.ts: the period record of one month
FakePeriod(c, y, m) ==
    LET startDate == StartOfMonth(y, m)
        endDate == EndOfMonth(y, m)
        targetClose == endDate
    IN  [companyId |-> c.id,
         displayName |-> <<MonthAbbrev(m), y>>,
         startsOn |-> StartOfDay(startDate),
         endsOn |-> EndOfDaySecond(endDate),
         targetClose |-> EndOfDaySecond(targetClose),
         status |-> IF y < now.y \/ (y = now.y /\ m < now.m)
                    THEN "closed" ELSE "open"]

\* years the command line of generateData.ts may name
YearArgs == 2023 .. (2023 + YearSpan)

\* makeFakeData.ts: startYear and endYear are drawn by two coin flips
FakeStartYears == {2023, 2024}
FakeEndYears == {2025, 2026}

\* instants the run's clock may show
Nows ==
    { [y |-> 2024, m |-> 2, d |-> 29, ms |-> 86399999],
      [y |-> 2024, m |-> 3, d |-> 1, ms |-> 0],
      [y |-> 2025, m |-> 6, d |-> 30, ms |-> 43200000] }

Companies == [id : {1}, basePeriod : BasePeriod]

\* the runs of createJournalEntries
Runs == {1, 2}

\* the calls of createPeriods
Calls == {1, 2}

\* main of generateData.ts is not running
GenIdle == gen = [pc |-> "idle"]

\* the setup helper is not running
HelperIdle == helper = [pc |-> "idle"]

\* createRandomJournalLines is not looked at on its own
AmountsIdle == amounts = [pc |-> "idle"]

\* waitForDockerContainerToBeRunning is not running
WaiterIdle == waiter = [pc |-> "idle"]

\* createPeriods is not running
CreatePeriodsIdle ==
    /\ callIdx = 0
    /\ allPeriods = [c \in Calls |-> <<>>]
    /\ pcCreatePeriods = "idle"
    /\ dbPeriods = {}

\* createJournalEntries is not running
JournalIdle ==
    /\ jsonMode = FALSE
    /\ allPeriodsSorted = <<>>
    /\ rpos = [r \in Runs |-> 0]
    /\ globalDisplayId = [r \in Runs |-> 0]
    /\ periodIdx = [r \in Runs |-> 0]
    /\ numEntries = [r \in Runs |-> 0]
    /\ entryIdx = [r \in Runs |-> 0]
    /\ allJournalEntries = [r \in Runs |-> <<>>]
    /\ allJournalLines = [r \in Runs |-> <<>>]
    /\ allJournalLineDimensions = [r \in Runs |-> <<>>]
    /\ pc = [r \in Runs |-> "idle"]
    /\ dbJournalEntries = {}
    /\ dbJournalLines = {}
    /\ dbJournalLineDimensions = {}

\* the account generator is not running
AccountsIdle ==
    /\ tape = <<>>
    /\ pos = 0
    /\ companyIdx = 0
    /\ numAccounts = 0
    /\ classIdx = 0
    /\ accounts = <<>>
    /\ parentAccounts = <<>>
    /\ allAccounts = <<>>
    /\ pcAccounts = "idle"

\* the period generator is not running
PeriodsIdle ==
    /\ startYear = 0
    /\ endYear = 0
    /\ year = 0
    /\ month = 0
    /\ quarter = 0
    /\ periods = <<>>
    /\ pcPeriods = "idle"

InitPeriods ==
    /\ script \in Scripts
    /\ now \in Nows
    /\ company \in Companies
    /\ \/ script = "generateData" /\ startYear \in YearArgs /\ endYear \in YearArgs
       \/ script = "makeFakeData" /\ startYear \in FakeStartYears
                                  /\ endYear \in FakeEndYears
    /\ year = startYear
    /\ month = 1
    /\ quarter = 1
    /\ periods = <<>>
    /\ pcPeriods = "loop"
    /\ AccountsIdle
    /\ JournalIdle
    /\ CreatePeriodsIdle
    /\ GenIdle
    /\ HelperIdle
    /\ AmountsIdle
    /\ WaiterIdle

\* for (let month = 1; month <= 12; month++) { ... } ; year++
NextMonth ==
    IF month < 12
    THEN /\ month' = month + 1 /\ year' = year
    ELSE /\ month' = 1 /\ year' = year + 1

NextQuarter ==
    IF quarter < 4
    THEN /\ quarter' = quarter + 1 /\ year' = year
    ELSE /\ quarter' = 1 /\ year' = year + 1

\* generateData.ts createPeriodsForCompany, one pass of the monthly loop
GenMonthlyPeriod ==
    /\ pcPeriods = "loop"
    /\ script = "generateData"
    /\ year <= endYear
    /\ company.basePeriod = "Month"
    /\ periods' = Append(periods, MonthlyPeriod(company, year, month))
    /\ NextMonth
    /\ UNCHANGED <<script, now, company, startYear, endYear, quarter, pcPeriods>>
    /\ UNCHANGED otherThanPeriods

\* generateData.ts createPeriodsForCompany, one pass of the quarterly loop
GenQuarterlyPeriod ==
    /\ pcPeriods = "loop"
    /\ script = "generateData"
    /\ year <= endYear
    /\ company.basePeriod # "Month"
    /\ periods' = Append(periods, QuarterlyPeriod(company, year, quarter))
    /\ NextQuarter
    /\ UNCHANGED <<script, now, company, startYear, endYear, month, pcPeriods>>
    /\ UNCHANGED otherThanPeriods

\* makeFakeData.ts createPeriodsForCompany, one pass of the month loop
FakeMonthlyPeriod ==
    /\ pcPeriods = "loop"
    /\ script = "makeFakeData"
    /\ year <= endYear
    /\ periods' = Append(periods, FakePeriod(company, year, month))
    /\ NextMonth
    /\ UNCHANGED <<script, now, company, startYear, endYear, quarter, pcPeriods>>
    /\ UNCHANGED otherThanPeriods

\* the year loop ends: return periods
ReturnPeriods ==
    /\ pcPeriods = "loop"
    /\ year > endYear
    /\ pcPeriods' = "done"
    /\ UNCHANGED <<script, now, company, startYear, endYear, year, month, quarter,
                   periods>>
    /\ UNCHANGED otherThanPeriods

NextPeriods ==
    \/ GenMonthlyPeriod
    \/ GenQuarterlyPeriod
    \/ FakeMonthlyPeriod
    \/ ReturnPeriods

SpecPeriods == InitPeriods /\ [][NextPeriods]_vars

----------------------------------------------------------------------------
(* Properties of period generation *)

\* number of years the year loop covers
GeneratedYears == IF endYear >= startYear THEN endYear - startYear + 1 ELSE 0

\* the generator produced one period per month
MonthlyCadence == script = "makeFakeData" \/ company.basePeriod = "Month"

\* the dates of two periods share no day
NoOverlap(p, q) == p.endsOn.day < q.startsOn.day \/ q.endsOn.day < p.startsOn.day

\* C8 - Period tiling: a company with monthly cadence and N generated years
\* gets exactly 12*N periods; in startsOn order each period's endsOn date plus
\* one day is the next period's startsOn date, and no two periods overlap.
PeriodTiling ==
    MonthlyCadence =>
        /\ pcPeriods = "done" => Len(periods) = 12 * GeneratedYears
        /\ \A i \in 1 .. Len(periods) - 1 :
              /\ periods[i].startsOn.day < periods[i + 1].startsOn.day
              /\ periods[i].endsOn.day + 1 = periods[i + 1].startsOn.day
        /\ \A i, j \in 1 .. Len(periods) :
              i # j => NoOverlap(periods[i], periods[j])

\* C8 witness: two full years of monthly periods, a leap February among them
PeriodTilingWitness ==
    /\ pcPeriods = "done"
    /\ script = "generateData"
    /\ company.basePeriod = "Month"
    /\ Len(periods) = 24
    /\ \E i \in 1 .. Len(periods) :
          periods[i].endsOn.day - periods[i].startsOn.day = 28

\* the months a period covers, read from its dates
CoversMonths(p, y, m1, m2) ==
    /\ p.startsOn.day = DayNumber(y, m1, 1)
    /\ p.endsOn.day + 1 = (IF m2 = 12 THEN DayNumber(y + 1, 1, 1)
                           ELSE DayNumber(y, m2 + 1, 1))

\* C9 - the cadence follows company.basePeriod: a Month company gets 12
\* periods per year, a Quarter company gets 4 periods per year that cover the
\* months 1-3, 4-6, 7-9 and 10-12.
CadenceFollowsBasePeriod ==
    pcPeriods = "done" =>
        /\ company.basePeriod = "Month" => Len(periods) = 12 * GeneratedYears
        /\ company.basePeriod = "Quarter" =>
              /\ Len(periods) = 4 * GeneratedYears
              /\ \A i \in 1 .. Len(periods) :
                    LET y == startYear + ((i - 1) \div 4)
                        q == ((i - 1) % 4) + 1
                    IN  CoversMonths(periods[i], y, 3 * q - 2, 3 * q)

\* what generateData.ts alone does about the cadence
GenerateDataCadence == script = "generateData" => CadenceFollowsBasePeriod

\* C10 - targetClose of a period generated by generateData.ts is the latest
\* non-weekend date on or before endsOn minus 7 days: that date itself when it
\* is Monday to Friday, else the Friday before it.
TargetCloseIsPreviousBusinessDay ==
    script = "generateData" =>
        \A i \in 1 .. Len(periods) :
            LET anchor == [day |-> periods[i].endsOn.day - 7, ms |-> 0]
                target == [day |-> periods[i].targetClose.day, ms |-> 0]
            IN  /\ target.day <= anchor.day
                /\ Weekday(target) \in 1 .. 5
                /\ \A d \in (target.day + 1) .. anchor.day :
                      Weekday([day |-> d, ms |-> 0]) \in {6, 7}
                /\ Weekday(anchor) \in 1 .. 5 => target = anchor
                /\ Weekday(anchor) \in {6, 7} => Weekday(target) = 5

\* C10 witness: March 2024 ends on the 31st, the 24th is a Sunday and the
\* target close is Friday the 22nd
TargetCloseWitness ==
    /\ script = "generateData"
    /\ \E i \in 1 .. Len(periods) :
          /\ periods[i].endsOn.day = DayNumber(2024, 3, 31)
          /\ Weekday([day |-> periods[i].endsOn.day - 7, ms |-> 0]) = 7
          /\ periods[i].targetClose.day = DayNumber(2024, 3, 22)

\* C11 - the targetClose of every period either script generates falls on
\* a day from Monday to Friday.
TargetCloseIsBusinessDay ==
    \A i \in 1 .. Len(periods) : ~IsWeekend(periods[i].targetClose)

\* C12 - a period generated by either script is closed exactly when the date
\* of its endsOn is before the current UTC date; a period that ends today or
\* later is open.
StatusFollowsEndsOn ==
    \A i \in 1 .. Len(periods) :
        periods[i].status = (IF periods[i].endsOn.day < NowInstant.day
                             THEN "closed" ELSE "open")

\* C12 witness: the run's clock shows the last millisecond of the day a period
\* ends on, that period is open and the period before it is closed
StatusFollowsEndsOnWitness ==
    \E i \in 2 .. Len(periods) :
        /\ periods[i].endsOn.day = NowInstant.day
        /\ Before(periods[i].endsOn, NowInstant)
        /\ periods[i].status = "open"
        /\ periods[i - 1].status = "closed"

----------------------------------------------------------------------------
(* Random values.  Math.random() and faker draw floats in [0, 1); the model  *)
(* keeps floor(100 * u) and draws it from a short cyclic tape chosen at the  *)
(* start of the run.                                                         *)

Draws == {0, 45, 95}

Tapes == [1 .. TapeLen -> Draws]

\* the k-th value drawn after `base` values were drawn
DrawFrom(base, k) == tape[((base + k) % Len(tape)) + 1]

\* the k-th value drawn from here on (k = 0 is the next one)
Draw(k) == DrawFrom(pos, k)

\* Math.floor(Math.random() * n), faker.helpers.arrayElement: a 1-based index
RandomIndex(u, n) == ((u * n) \div 100) + 1

\* randomEnum(values)
randomEnum(values, u) == values[RandomIndex(u, Len(values))]

\* faker.datatype.boolean({ probability: p }), p in percent
RandomBoolean(u, p) == u < p

\* faker.number.int({ min, max })
RandomInt(u, min, max) == min + ((u * (max - min + 1)) \div 100)

----------------------------------------------------------------------------
(* Chart of accounts *)

MIN_ACCOUNTS_PER_COMPANY == 6
MAX_ACCOUNTS_PER_COMPANY == 24

\* Object.values(AccountClassification), in the order of schema.prisma
AccountClassification == <<"Asset", "Equity", "Expense", "Liability", "Income", "Unknown">>

getTypesForClassification(classification) ==
    CASE classification = "Asset" ->
            <<"CurrentAsset", "FixedAsset", "LongTermAsset">>
      [] classification = "Liability" ->
            <<"CurrentLiability", "LongTermLiability", "ContingentLiability">>
      [] classification = "Equity" ->
            <<"Capital", "RetainedProfit", "Reserve">>
      [] classification = "Income" ->
            <<"OperatingRevenue", "NonOperatingRevenue", "GainOnSale">>
      [] classification = "Expense" ->
            <<"DirectExpense", "IndirectExpense", "OperatingExpense">>
      [] OTHER -> <<"UncategorizedType">>

getSubtypesForType(accountType) ==
    CASE accountType = "CurrentAsset" ->
            <<"Cash", "AccountsReceivable", "Inventory", "PrepaidExpenses",
              "MarketableSecurities">>
      [] accountType = "FixedAsset" ->
            <<"Land", "Building", "Equipment", "Vehicles", "Furniture">>
      [] accountType = "LongTermAsset" ->
            <<"Investments", "Goodwill", "IntangibleAssets", "LongTermDeposits",
              "DeferredTaxAsset">>
      [] accountType = "CurrentLiability" ->
            <<"AccountsPayable", "ShortTermLoans", "AccruedLiabilities",
              "UnearnedRevenue", "CurrentPortionOfLTD">>
      [] accountType = "LongTermLiability" ->
            <<"LongTermDebt", "Bonds", "Mortgages", "PensionLiability",
              "DeferredTaxLiability">>
      [] accountType = "ContingentLiability" ->
            <<"LegalClaims", "ProductWarranties", "GuaranteeObligations",
              "EnvironmentalLiability">>
      [] accountType = "Capital" ->
            <<"CommonStock", "PreferredStock", "AdditionalPaidInCapital",
              "OwnerInvestment", "PartnerCapital">>
      [] accountType = "RetainedProfit" ->
            <<"RetainedEarnings", "AccumulatedProfits", "AccumulatedDeficit",
              "UndistributedProfit">>
      [] accountType = "Reserve" ->
            <<"GeneralReserve", "CapitalReserve", "StatutoryReserve",
              "RevaluationReserve", "TreasuryStock">>
      [] accountType = "OperatingRevenue" ->
            <<"SalesRevenue", "ServiceRevenue", "CommissionRevenue", "FeeRevenue",
              "SubscriptionRevenue">>
      [] accountType = "NonOperatingRevenue" ->
            <<"InterestIncome", "DividendIncome", "RentalIncome", "RoyaltyIncome",
              "LicensingRevenue">>
      [] accountType = "GainOnSale" ->
            <<"GainOnSaleOfAssets", "GainOnInvestments", "GainOnDebtSettlement",
              "GainOnForeignExchange">>
      [] accountType = "DirectExpense" ->
            <<"CostOfGoodsSold", "DirectLabor", "DirectMaterials",
              "ManufacturingOverhead", "PurchasesDiscounts">>
      [] accountType = "IndirectExpense" ->
            <<"Salaries", "Rent", "Utilities", "OfficeSupplies", "Insurance">>
      [] accountType = "OperatingExpense" ->
            <<"Marketing", "ResearchAndDevelopment", "Depreciation", "Amortization",
              "Interest">>
      [] OTHER -> <<"Uncategorized">>

\* parentAccount = null
NoParent == [id |-> 0]

\* a slip: the type of a child account is drawn like that of a top-level one
AccountTypeDrawn(classification, parentAccount, k) ==
    randomEnum(getTypesForClassification(classification), Draw(k))

\* createRandomAccount: accountType
AccountTypeFor(classification, parentAccount, k) ==
    IF parentAccount # NoParent
    THEN parentAccount.accountType
    ELSE randomEnum(getTypesForClassification(classification), Draw(k))

\* a slip: the switch over the types falls through to its default
AccountSubTypeDefault(accountType, parentAccount, k) ==
    IF parentAccount # NoParent
    THEN parentAccount.accountSubType
    ELSE randomEnum(getSubtypesForType("UncategorizedType"), Draw(k))

\* createRandomAccount: accountSubType
AccountSubTypeFor(accountType, parentAccount, k) ==
    IF parentAccount # NoParent
    THEN parentAccount.accountSubType
    ELSE randomEnum(getSubtypesForType(accountType), Draw(k))

\* a slip: the active flag is drawn whatever the parent is
ActiveDrawn(parentAccount, k) == RandomBoolean(Draw(k), 90)

\* createRandomAccount: active
ActiveFor(parentAccount, k) ==
    IF parentAccount # NoParent /\ ~parentAccount.active
    THEN FALSE
    ELSE RandomBoolean(Draw(k), 90)

\* a slip: the classification is not looked at
SpecialUseTypeAnyClassification(classification, k) ==
    IF RandomBoolean(Draw(k), 20) THEN "AccruedExpense" ELSE "null"

\* createRandomAccount: specialUseType
SpecialUseTypeFor(classification, k) ==
    IF classification = "Expense" /\ RandomBoolean(Draw(k), 20)
    THEN "AccruedExpense" ELSE "null"

\* createRandomAccount(company, classification, parentAccount), with the id
\* createId() returns.  The random values are drawn in the order of the code,
\* the first of them being draw number k0 from here.  The names of the account
\* are left out.
createRandomAccount(c, classification, parentAccount, id, k0) ==
    LET isChild == parentAccount # NoParent
        kActive == IF isChild THEN k0 ELSE k0 + 2
        drawsActive == IF isChild /\ ~parentAccount.active THEN 0 ELSE 1
        kSpecial == kActive + drawsActive
        accountType == AccountTypeFor(classification, parentAccount, k0)
        accountSubType == AccountSubTypeFor(accountType, parentAccount, k0 + 1)
    IN  [account |->
            [id |-> id,
             companyId |-> c.id,
             active |-> ActiveFor(parentAccount, kActive),
             parentAccountId |-> parentAccount.id,
             classification |-> classification,
             accountType |-> accountType,
             accountSubType |-> accountSubType,
             specialUseType |-> SpecialUseTypeFor(classification, kSpecial)],
         draws |-> kSpecial + (IF classification = "Expense" THEN 1 ELSE 0)]

\* the company with number n of the run
CompanyOf(n) == [id |-> n, basePeriod |-> IF n % 2 = 1 THEN "Month" ELSE "Quarter"]

\* createId(): an id no other account has
NewAccountId == Len(allAccounts) + Len(accounts) + 1

\* parentAccounts.filter((parent) => parent.classification === classification)
RECURSIVE FilterByClassification(_, _)
FilterByClassification(list, classification) ==
    IF list = <<>> THEN <<>>
    ELSE (IF Head(list).classification = classification THEN <<Head(list)>> ELSE <<>>)
             \o FilterByClassification(Tail(list), classification)

InitAccounts ==
    /\ script \in Scripts
    /\ now \in {CHOOSE n \in Nows : TRUE}
    /\ tape \in Tapes
    /\ pos = 0
    /\ companyIdx = 1
    /\ company = CompanyOf(1)
    /\ numAccounts = 0
    /\ classIdx = 0
    /\ accounts = <<>>
    /\ parentAccounts = <<>>
    /\ allAccounts = <<>>
    /\ pcAccounts = "start"
    /\ PeriodsIdle
    /\ JournalIdle
    /\ CreatePeriodsIdle
    /\ GenIdle
    /\ HelperIdle
    /\ AmountsIdle
    /\ WaiterIdle

Advance(n) == pos' = (pos + n) % Len(tape)

\* createAccountsForCompany: numAccounts is drawn, the lists are empty
BeginCompanyAccounts ==
    /\ pcAccounts = "start"
    /\ numAccounts' = RandomInt(Draw(0), MIN_ACCOUNTS_PER_COMPANY,
                                MAX_ACCOUNTS_PER_COMPANY)
    /\ Advance(1)
    /\ accounts' = <<>>
    /\ parentAccounts' = <<>>
    /\ classIdx' = 1
    /\ pcAccounts' = "classifications"
    /\ UNCHANGED <<script, now, company, tape, companyIdx, allAccounts>>
    /\ UNCHANGED otherThanAccounts

\* createAccountsForCompany: one account for each classification
CreateClassificationAccount ==
    /\ pcAccounts = "classifications"
    /\ LET r == createRandomAccount(company, AccountClassification[classIdx],
                                    NoParent, NewAccountId, 0)
       IN  /\ accounts' = Append(accounts, r.account)
           /\ parentAccounts' = Append(parentAccounts, r.account)
           /\ Advance(r.draws)
    /\ IF classIdx < Len(AccountClassification)
       THEN /\ classIdx' = classIdx + 1 /\ pcAccounts' = pcAccounts
       ELSE /\ classIdx' = classIdx /\ pcAccounts' = "remaining"
    /\ UNCHANGED <<script, now, company, tape, companyIdx, numAccounts, allAccounts>>
    /\ UNCHANGED otherThanAccounts

\* the classification and the child decision of one pass of the second loop
DrawnClassification == randomEnum(AccountClassification, Draw(0))
DrawnCreateChild == Len(parentAccounts) > 0 /\ RandomBoolean(Draw(1), 30)
PotentialParentsOfAnyCompany == FilterByClassification(allAccounts \o parentAccounts, DrawnClassification)
PotentialParents == FilterByClassification(parentAccounts, DrawnClassification)

\* number of values the pass has drawn before it calls createRandomAccount
DrawsBeforeAccount == IF Len(parentAccounts) > 0 THEN 2 ELSE 1

\* createAccountsForCompany: a child account of a random parent of the
\* drawn classification
CreateChildAccount ==
    /\ pcAccounts = "remaining"
    /\ Len(accounts) < numAccounts
    /\ DrawnCreateChild
    /\ Len(PotentialParents) > 0
    /\ LET parentAccount == randomEnum(PotentialParents, Draw(2))
           r == createRandomAccount(company, DrawnClassification, parentAccount,
                                    NewAccountId, 3)
       IN  /\ accounts' = Append(accounts, r.account)
           /\ Advance(r.draws)
    /\ UNCHANGED <<script, now, company, tape, companyIdx, numAccounts, classIdx,
                   parentAccounts, allAccounts, pcAccounts>>
    /\ UNCHANGED otherThanAccounts

\* createAccountsForCompany: a regular account, which may become a parent
CreateRegularAccount ==
    /\ pcAccounts = "remaining"
    /\ Len(accounts) < numAccounts
    /\ ~(DrawnCreateChild /\ Len(PotentialParents) > 0)
    /\ LET r == createRandomAccount(company, DrawnClassification, NoParent,
                                    NewAccountId, DrawsBeforeAccount)
       IN  /\ accounts' = Append(accounts, r.account)
           /\ parentAccounts' = Append(parentAccounts, r.account)
           /\ Advance(r.draws)
    /\ UNCHANGED <<script, now, company, tape, companyIdx, numAccounts, classIdx,
                   allAccounts, pcAccounts>>
    /\ UNCHANGED otherThanAccounts

\* createAccountsForCompany returns; createAccounts pushes the accounts and
\* goes on with the next company
ReturnAccounts ==
    /\ pcAccounts = "remaining"
    /\ Len(accounts) >= numAccounts
    /\ allAccounts' = allAccounts \o accounts
    /\ accounts' = <<>>
    /\ parentAccounts' = <<>>
    /\ IF companyIdx < NumCompanies
       THEN /\ companyIdx' = companyIdx + 1
            /\ company' = CompanyOf(companyIdx + 1)
            /\ pcAccounts' = "start"
       ELSE /\ companyIdx' = companyIdx
            /\ company' = company
            /\ pcAccounts' = "done"
    /\ UNCHANGED <<script, now, tape, pos, numAccounts, classIdx>>
    /\ UNCHANGED otherThanAccounts

NextAccounts ==
    \/ BeginCompanyAccounts
    \/ CreateClassificationAccount
    \/ CreateChildAccount
    \/ CreateRegularAccount
    \/ ReturnAccounts

SpecAccounts == InitAccounts /\ [][NextAccounts]_vars

----------------------------------------------------------------------------
(* Properties of the chart of accounts *)

\* every account generated so far, in creation order; an account's id is its
\* place in this list
GeneratedAccounts == allAccounts \o accounts

\* the account a parentAccountId refers to
ParentOf(a) == GeneratedAccounts[a.parentAccountId]

HasParent(a) == a.parentAccountId # NoParent.id

\* C6 - Child inherits parent: an account with a parent has the parent's
\* classification, account type and account subtype.
ChildInheritsParent ==
    \A i \in 1 .. Len(GeneratedAccounts) :
        LET a == GeneratedAccounts[i]
        IN  HasParent(a) =>
              /\ a.classification = ParentOf(a).classification
              /\ a.accountType = ParentOf(a).accountType
              /\ a.accountSubType = ParentOf(a).accountSubType

\* C6 witness: a child account exists whose classification offers a type other
\* than the one it inherited
ChildInheritsParentWitness ==
    \E i \in 1 .. Len(GeneratedAccounts) :
        LET a == GeneratedAccounts[i]
        IN  /\ HasParent(a)
            /\ a.accountType = ParentOf(a).accountType
            /\ a.accountType # getTypesForClassification(a.classification)[1]

\* C7 - No active child of inactive parent: an account whose parent is
\* inactive is inactive.
NoActiveChildOfInactiveParent ==
    \A i \in 1 .. Len(GeneratedAccounts) :
        LET a == GeneratedAccounts[i]
        IN  (HasParent(a) /\ ~ParentOf(a).active) => ~a.active

\* C7 witness: a child created under an inactive parent, itself inactive
InactiveParentWitness ==
    \E i \in 1 .. Len(GeneratedAccounts) :
        LET a == GeneratedAccounts[i]
        IN  HasParent(a) /\ ~ParentOf(a).active /\ ~a.active

\* the elements of a list of enum values
Members(values) == {values[i] : i \in 1 .. Len(values)}

\* C19 - every account, top-level or child, has a type that
\* getTypesForClassification lists for its classification and a subtype that
\* getSubtypesForType lists for its type.
LegalTypeAndSubType ==
    \A i \in 1 .. Len(GeneratedAccounts) :
        LET a == GeneratedAccounts[i]
        IN  /\ a.accountType \in Members(getTypesForClassification(a.classification))
            /\ a.accountSubType \in Members(getSubtypesForType(a.accountType))

\* C19 witness: a top-level account and a child account, neither of type
\* UncategorizedType nor of the first subtype of its type
LegalTypeAndSubTypeWitness ==
    \E i, j \in 1 .. Len(GeneratedAccounts) :
        LET a == GeneratedAccounts[i]
            b == GeneratedAccounts[j]
        IN  /\ ~HasParent(a) /\ HasParent(b)
            /\ a.accountType # "UncategorizedType"
            /\ b.accountType # "UncategorizedType"
            /\ a.accountSubType # getSubtypesForType(a.accountType)[1]
            /\ b.accountSubType # getSubtypesForType(b.accountType)[1]

\* C20 - only accounts of classification Expense have a special-use type.
SpecialUseOnlyForExpense ==
    \A i \in 1 .. Len(GeneratedAccounts) :
        LET a == GeneratedAccounts[i]
        IN  a.specialUseType # "null" => a.classification = "Expense"

\* C20 witness: an Expense account with the special-use type AccruedExpense,
\* next to accounts of the other classifications
SpecialUseOnlyForExpenseWitness ==
    /\ \E i \in 1 .. Len(GeneratedAccounts) :
          /\ GeneratedAccounts[i].classification = "Expense"
          /\ GeneratedAccounts[i].specialUseType = "AccruedExpense"
    /\ \E i \in 1 .. Len(GeneratedAccounts) :
          /\ GeneratedAccounts[i].classification = "Income"
          /\ GeneratedAccounts[i].specialUseType = "null"

\* the account reached from a by following parentAccountId n times, NoParent
\* when the chain ends before
RECURSIVE Ancestor(_, _)
Ancestor(a, n) ==
    IF n = 0 \/ a = NoParent THEN a
    ELSE Ancestor(IF HasParent(a) THEN ParentOf(a) ELSE NoParent, n - 1)

\* C21 - the parent relation is acyclic: following parentAccountId from any
\* account ends at an account without a parent after fewer steps than there
\* are accounts, and every parent belongs to the company of its child.
ParentChainsEnd ==
    \A i \in 1 .. Len(GeneratedAccounts) :
        LET a == GeneratedAccounts[i]
        IN  /\ Ancestor(a, Len(GeneratedAccounts)) = NoParent
            /\ HasParent(a) =>
                  /\ a.parentAccountId \in 1 .. Len(GeneratedAccounts)
                  /\ ParentOf(a).companyId = a.companyId

\* C21 witness: a child account of the second company, created when the first
\* company already has an account of the child's classification that is no
\* child itself
ParentChainsEndWitness ==
    \E i, j \in 1 .. Len(GeneratedAccounts) :
        LET a == GeneratedAccounts[i]
            b == GeneratedAccounts[j]
        IN  /\ HasParent(a)
            /\ a.companyId # b.companyId
            /\ j < i
            /\ ~HasParent(b)
            /\ b.classification = a.classification
            /\ ParentOf(a).companyId = a.companyId

----------------------------------------------------------------------------
(* Journal entries: the inputs of createJournalEntries *)

MAX_JOURNAL_LINES_PER_ENTRY == 5

JournalEntryStatus == <<"Draft", "Scheduled", "Posted">>

\* generateData.ts createPeriodsForCompany as a whole: the periods of the
\* years y .. endY, from month or quarter n on
PeriodsFrom(c, y, n, endY) ==
    LET perYear == IF c.basePeriod = "Month" THEN 12 ELSE 4
        total == IF y > endY THEN 0 ELSE (endY - y + 1) * perYear - (n - 1)
    IN  SubSeq([k \in 1 .. total |->
                    LET passed == (n - 1) + (k - 1)
                        inYear == y + (passed \div perYear)
                        place == (passed % perYear) + 1
                    IN  IF c.basePeriod = "Month"
                        THEN MonthlyPeriod(c, inYear, place)
                        ELSE QuarterlyPeriod(c, inYear, place)],
               1, total)

\* createPeriods: the periods of all companies, company after company
RECURSIVE PeriodsOfCompanies(_)
PeriodsOfCompanies(n) ==
    IF n = 0 THEN <<>>
    ELSE PeriodsOfCompanies(n - 1) \o PeriodsFrom(CompanyOf(n), 2024, 1, 2024)

\* the periods main passes on, each with the id createId() gave it
AllPeriods ==
    LET ps == PeriodsOfCompanies(NumCompanies)
    IN  SubSeq([i \in 1 .. Len(ps) |->
                    [id |-> i, companyId |-> ps[i].companyId, startsOn |-> ps[i].startsOn,
                     endsOn |-> ps[i].endsOn, status |-> ps[i].status]],
               1, Len(ps))

\* a slip: the list is left in the order it came in
RankByPosition(list, i) == i

\* Array.prototype.sort with (a, b) => a.startsOn.getTime() - b.startsOn.getTime(),
\* a stable sort: the place of list[i] in the sorted list, after the elements
\* that start earlier and after the earlier elements of the same start
RankByStartsOn(list, i) ==
    1 + Cardinality({j \in 1 .. Len(list) :
                        \/ Before(list[j].startsOn, list[i].startsOn)
                        \/ (~Before(list[i].startsOn, list[j].startsOn) /\ j < i)})

\* [...periods].sort(...)
SortByStartsOn(list) ==
    SubSeq([k \in 1 .. Len(list) |->
               list[CHOOSE i \in 1 .. Len(list) : RankByStartsOn(list, i) = k]],
           1, Len(list))

\* the accounts main passes on: one per classification and company, some of
\* them inactive
JournalAccounts ==
    [i \in 1 .. (NumCompanies * Len(AccountClassification)) |->
        LET n == ((i - 1) \div Len(AccountClassification)) + 1
            k == ((i - 1) % Len(AccountClassification)) + 1
        IN  [id |-> i, companyId |-> n, classification |-> AccountClassification[k],
             active |-> (k + n) % 3 # 0]]

----------------------------------------------------------------------------
(* Journal entries: createRandomJournalEntry and createRandomJournalLines *)

\* the seconds from a to b
SecondsBetween(a, b) == (b.day - a.day) * 86400 + ((b.ms \div 1000) - (a.ms \div 1000))

\* the instant n seconds after the second dt lies in
PlusSeconds(dt, n) ==
    [day |-> dt.day + (((dt.ms \div 1000) + n) \div 86400),
     ms |-> (((dt.ms \div 1000) + n) % 86400) * 1000]

\* a slip: the date is drawn from the time after `to`
DateAfter(from, to, u) ==
    PlusSeconds(to, (u * (SecondsBetween(from, to) + 1)) \div 100)

\* faker.date.between({ from, to }): an instant drawn from [from, to], to the
\* second
DateBetween(from, to, u) ==
    PlusSeconds(from, (u * (SecondsBetween(from, to) + 1)) \div 100)

\* a slip: the comparison is the wrong way round
PeriodInPast(minDate) == Before(minDate, NowInstant)

\* minDate > now
PeriodInFuture(minDate) == Before(NowInstant, minDate)

\* createRandomJournalEntry(company, period, users, displayId), with the id
\* createId() returns; the users and the description are left out
createRandomJournalEntry(period, displayId, id, base) ==
    LET minDate == period.startsOn
        maxDate == period.endsOn
        transactionDate == DateBetween(minDate, maxDate, DrawFrom(base, 1))
        isUpdated == RandomBoolean(DrawFrom(base, 3), 30)
        kDeleted == IF isUpdated THEN 6 ELSE 4
        isDeleted == RandomBoolean(DrawFrom(base, kDeleted), 5)
        future == PeriodInFuture(minDate)
        status == IF future THEN "Scheduled"
                  ELSE randomEnum(JournalEntryStatus, DrawFrom(base, kDeleted + 1))
    IN  [entry |->
            [id |-> id,
             displayId |-> displayId,
             companyId |-> period.companyId,
             periodId |-> period.id,
             status |-> status,
             deleted |-> isDeleted,
             transactionDate |-> transactionDate],
         draws |-> kDeleted + 1 + (IF future THEN 0 ELSE 1) + 1]

\* a slip: the accounts are not filtered by their active flag
RECURSIVE FilterAccountsOfCompany(_, _, _)
FilterAccountsOfCompany(list, companyId, requireActiveAccounts) ==
    IF list = <<>> THEN <<>>
    ELSE (IF Head(list).companyId = companyId THEN <<Head(list)>> ELSE <<>>)
            \o FilterAccountsOfCompany(Tail(list), companyId, requireActiveAccounts)

\* accounts.filter(companyId) and, for present and future dates, filter(active)
RECURSIVE FilterAccounts(_, _, _)
FilterAccounts(list, companyId, requireActiveAccounts) ==
    IF list = <<>> THEN <<>>
    ELSE (IF /\ Head(list).companyId = companyId
             /\ (requireActiveAccounts => Head(list).active)
          THEN <<Head(list)>> ELSE <<>>)
            \o FilterAccounts(Tail(list), companyId, requireActiveAccounts)

\* Object.keys(_.groupBy(availableAccounts, "classification"))
RECURSIVE ClassificationKeys(_, _)
ClassificationKeys(list, seen) ==
    IF list = <<>> THEN <<>>
    ELSE IF Head(list).classification \in seen
         THEN ClassificationKeys(Tail(list), seen)
         ELSE <<Head(list).classification>>
                 \o ClassificationKeys(Tail(list), seen \cup {Head(list).classification})

\* a slip: each place is filled with a random element, with repetition
SampleFrom(array, index, base) ==
    [i \in 1 .. Len(array) |->
        array[index + ((DrawFrom(base, i - 1) * (Len(array) - index + 1)) \div 100)]]

\* _.shuffle(array): lodash shuffleSelf, one random value for each index
RECURSIVE ShuffleFrom(_, _, _)
ShuffleFrom(array, index, base) ==
    IF index > Len(array) THEN array
    ELSE LET rand == index + ((DrawFrom(base, index - 1) * (Len(array) - index + 1)) \div 100)
             swapped == [array EXCEPT ![rand] = array[index], ![index] = array[rand]]
         IN  ShuffleFrom(swapped, index + 1, base)

\* faker.number.int({ min: -500000000, max: 500000000 })
RandomAmount(u) == (u * 10000000) - 500000000

\* while (amount === 0) amount = faker.number.int(...): the number of values
\* drawn until one gives a nonzero amount (Len(tape) + 1 if none does)
RECURSIVE DrawsUntilNonZero(_, _)
DrawsUntilNonZero(base, tries) ==
    IF tries > Len(tape) \/ RandomAmount(DrawFrom(base, tries - 1)) # 0 THEN tries
    ELSE DrawsUntilNonZero(base, tries + 1)

\* a slip: -Math.abs(totalAmount)
BalancingAmountNegatedAbs(totalAmount) ==
    IF totalAmount < 0 THEN totalAmount ELSE -totalAmount

\* a slip: the balancing line repeats the sum instead of negating it
BalancingAmountNotNegated(totalAmount) == totalAmount

\* createRandomJournalLines: the amount of the balancing line
BalancingAmount(totalAmount) == -totalAmount

\* createRandomJournalLines: the n-1 lines with random amounts, then the
\* balancing line; i counts the lines from 1
RECURSIVE RandomLines(_, _, _, _, _, _)
RandomLines(journalEntry, availableAccounts, selectedClassifications, i, base, totalAmount) ==
    LET numLines == Len(selectedClassifications)
        accountsForClassification ==
            FilterByClassification(availableAccounts, selectedClassifications[i])
        account == randomEnum(accountsForClassification, DrawFrom(base, 0))
        line == [id |-> <<journalEntry.id, i>>,
                 companyId |-> journalEntry.companyId,
                 journalEntryId |-> journalEntry.id,
                 accountId |-> account.id]
    IN  IF i = numLines
        THEN [lines |-> <<[line EXCEPT !.id = <<journalEntry.id, i>>]
                            @@ [amount |-> BalancingAmount(totalAmount)]>>,
              draws |-> 1]
        ELSE LET tries == DrawsUntilNonZero(base + 1, 1)
                 amount == RandomAmount(DrawFrom(base, tries))
                 rest == RandomLines(journalEntry, availableAccounts,
                                     selectedClassifications, i + 1,
                                     base + 1 + tries, totalAmount + amount)
             IN  [lines |-> <<line @@ [amount |-> amount]>> \o rest.lines,
                  draws |-> 1 + tries + rest.draws]

Min(a, b) == IF a < b THEN a ELSE b

\* createRandomJournalLines(journalEntry, accounts); the descriptions are
\* left out
createRandomJournalLines(journalEntry, accts, base) ==
    LET isDraft == journalEntry.status = "Draft"
        d0 == IF isDraft THEN 1 ELSE 0
        requireActiveAccounts == ~Before(journalEntry.transactionDate, NowInstant)
        availableAccounts ==
            FilterAccounts(accts, journalEntry.companyId, requireActiveAccounts)
        classifications == ClassificationKeys(availableAccounts, {})
    IN  IF isDraft /\ RandomBoolean(DrawFrom(base, 0), 70)
        THEN [lines |-> <<>>, draws |-> 1]
        ELSE IF Len(availableAccounts) = 0 \/ Len(classifications) = 0
        THEN [lines |-> <<>>, draws |-> d0]
        ELSE IF RandomBoolean(DrawFrom(base, d0), 10)
        THEN [lines |->
                <<[id |-> <<journalEntry.id, 1>>,
                   companyId |-> journalEntry.companyId,
                   journalEntryId |-> journalEntry.id,
                   accountId |-> randomEnum(availableAccounts,
                                            DrawFrom(base, d0 + 1)).id,
                   amount |-> 0]>>,
              draws |-> d0 + 2]
        ELSE LET numLines ==
                    RandomInt(DrawFrom(base, d0 + 1), 2,
                              Min(MAX_JOURNAL_LINES_PER_ENTRY,
                                  IF Len(classifications) > 1
                                  THEN Len(classifications) ELSE 5))
                 several == Len(classifications) > 1
                 selectedClassifications ==
                    IF several
                    THEN SubSeq(ShuffleFrom(classifications, 1, base + d0 + 2),
                                1, numLines)
                    ELSE [i \in 1 .. numLines |-> classifications[1]]
                 dShuffle == IF several THEN Len(classifications) ELSE 0
                 r == RandomLines(journalEntry, availableAccounts,
                                  selectedClassifications, 1,
                                  base + d0 + 2 + dShuffle, 0)
             IN  [lines |-> r.lines, draws |-> d0 + 2 + dShuffle + r.draws]

----------------------------------------------------------------------------
(* Journal entries: createJournalLineDimensions *)

\* createDimensionsForCompany: the standard dimension names
standardDimensions ==
    <<"Company", "Customer", "Vendor", "Department", "Location", "Product", "Person">>

\* the dimension values main passes on, of one company
DimensionValuesOf(companyId) ==
    [i \in 1 .. (Len(standardDimensions) * ValuesPerDimension) |->
        LET d == ((i - 1) \div ValuesPerDimension) + 1
            v == ((i - 1) % ValuesPerDimension) + 1
        IN  [id |-> <<companyId, d, v>>, companyId |-> companyId,
             dimensionId |-> <<companyId, d>>,
             dimensionName |-> standardDimensions[d]]]

\* valuesByDimension[dimensionId]
RECURSIVE FilterByDimension(_, _)
FilterByDimension(list, dimensionId) ==
    IF list = <<>> THEN <<>>
    ELSE (IF Head(list).dimensionId = dimensionId THEN <<Head(list)>> ELSE <<>>)
            \o FilterByDimension(Tail(list), dimensionId)

\* Object.keys(_.groupBy(companyDimensionValues, "dimensionId"))
RECURSIVE DimensionKeys(_, _)
DimensionKeys(list, seen) ==
    IF list = <<>> THEN <<>>
    ELSE IF Head(list).dimensionId \in seen
         THEN DimensionKeys(Tail(list), seen)
         ELSE <<Head(list).dimensionId>>
                 \o DimensionKeys(Tail(list), seen \cup {Head(list).dimensionId})

\* the tags of one journal line: one value of each chosen dimension
LineDimensions(journalLine, base) ==
    LET companyDimensionValues == DimensionValuesOf(journalLine.companyId)
        dimensionIds == DimensionKeys(companyDimensionValues, {})
        numDimensions == Min(RandomInt(DrawFrom(base, 1), 1, 3), Len(dimensionIds))
        shuffledDimensionIds ==
            SubSeq(ShuffleFrom(dimensionIds, 1, base + 2), 1, numDimensions)
        k0 == base + 2 + Len(dimensionIds)
    IN  IF ~RandomBoolean(DrawFrom(base, 0), 30)
        THEN [dims |-> <<>>, draws |-> 1]
        ELSE [dims |->
                [j \in 1 .. numDimensions |->
                    LET availableValues ==
                            FilterByDimension(companyDimensionValues,
                                              shuffledDimensionIds[j])
                        dimensionValue ==
                            randomEnum(availableValues, DrawFrom(k0, j - 1))
                    IN  [id |-> <<journalLine.id, j>>,
                         companyId |-> journalLine.companyId,
                         journalLineId |-> journalLine.id,
                         dimensionId |-> dimensionValue.dimensionId,
                         dimensionValueId |-> dimensionValue.id]],
              draws |-> 2 + Len(dimensionIds) + numDimensions]

\* the tags made so far and those of one more journal line
WithLineDimensions(made, journalLine, base) ==
    LET r == LineDimensions(journalLine, base + made.draws)
    IN  [dims |-> made.dims \o r.dims, draws |-> made.draws + r.draws]

\* for (const journalLine of journalLines): the tags made so far and those of
\* the lines first .. last, the first half of the lines before the second
\* (the comparison of the draws makes TLC finish the first half before it
\* starts on the second, which keeps its evaluation shallow)
RECURSIVE DimensionsOfLines(_, _, _, _, _)
DimensionsOfLines(made, journalLines, first, last, base) ==
    IF first > last THEN made
    ELSE IF first = last THEN WithLineDimensions(made, journalLines[first], base)
    ELSE LET middle == (first + last) \div 2
             firstHalf == DimensionsOfLines(made, journalLines, first, middle, base)
         IN  IF firstHalf.draws >= made.draws
             THEN DimensionsOfLines(firstHalf, journalLines, middle + 1, last, base)
             ELSE firstHalf

\* createJournalLineDimensions(journalLines, dimensionValues)
createJournalLineDimensions(journalLines, base) ==
    DimensionsOfLines([dims |-> <<>>, draws |-> 0],
                      journalLines, 1, Len(journalLines), base).dims

----------------------------------------------------------------------------
(* Journal entries: the tables of the database *)

\* journal_entries: the primary key and @@unique([companyId, displayId])
SameEntryKey(a, b) ==
    \/ a.id = b.id
    \/ (a.companyId = b.companyId /\ a.displayId = b.displayId)

\* the row cannot be stored next to the rows of the table
EntryConflicts(table, row) == \E e \in table : SameEntryKey(e, row)

\* journal_lines and journal_line_dimensions: the primary key
IdConflicts(table, row) == \E e \in table : e.id = row.id

\* createMany({ data, skipDuplicates: true }) on journal_entries:
\* INSERT ... ON CONFLICT DO NOTHING keeps the rows already stored and, of the
\* rows of the statement that conflict with one another, the first (the ids of
\* createId() differ, so that rows conflict on one key only)
InsertEntries(table, rows) ==
    table \cup
      { rows[k] : k \in { i \in 1 .. Len(rows) :
                            /\ ~EntryConflicts(table, rows[i])
                            /\ \A j \in 1 .. (i - 1) : ~SameEntryKey(rows[j], rows[i]) } }

\* createMany({ data, skipDuplicates: true }) on a table with a primary key only
InsertRows(table, rows) ==
    table \cup
      { rows[k] : k \in { i \in 1 .. Len(rows) :
                            /\ ~IdConflicts(table, rows[i])
                            /\ \A j \in 1 .. (i - 1) : rows[j].id # rows[i].id } }

Ids(table) == {e.id : e \in table}

Range(rows) == {rows[i] : i \in 1 .. Len(rows)}

\* the foreign key journal_lines.journal_entry_id -> journal_entries.id
LinesReferenceEntries(rows) ==
    \A l \in Range(rows) : l.journalEntryId \in Ids(dbJournalEntries)

\* the foreign key journal_line_dimensions.journal_line_id -> journal_lines.id
DimensionsReferenceLines(rows) ==
    \A d \in Range(rows) : d.journalLineId \in Ids(dbJournalLines)

----------------------------------------------------------------------------
(* Journal entries: createJournalEntries, one run for each member of Runs *)

\* let globalDisplayId = 1
FirstDisplayId == 1

\* a slip: the counter is passed on but not incremented
SameDisplayId(displayId) == displayId

\* a slip: the counter is incremented twice
SkipDisplayId(displayId) == displayId + 2

\* globalDisplayId++
NextDisplayId(displayId) == displayId + 1

\* the state in which the runs of the set started enter createJournalEntries
InitJournalRuns(started) ==
    /\ script = "generateData"
    /\ company = CompanyOf(1)
    /\ PeriodsIdle
    /\ CreatePeriodsIdle
    /\ GenIdle
    /\ HelperIdle
    /\ AmountsIdle
    /\ WaiterIdle
    /\ tape \in Tapes
    /\ pos = 0
    /\ companyIdx = 0
    /\ numAccounts = 0
    /\ classIdx = 0
    /\ accounts = <<>>
    /\ parentAccounts = <<>>
    /\ allAccounts = <<>>
    /\ pcAccounts = "done"
    /\ rpos = [r \in Runs |-> r - 1]
    /\ globalDisplayId = [r \in Runs |-> FirstDisplayId]
    /\ periodIdx = [r \in Runs |-> 1]
    /\ numEntries = [r \in Runs |-> 0]
    /\ entryIdx = [r \in Runs |-> 0]
    /\ allJournalEntries = [r \in Runs |-> <<>>]
    /\ allJournalLines = [r \in Runs |-> <<>>]
    /\ allJournalLineDimensions = [r \in Runs |-> <<>>]
    /\ pc = [r \in Runs |-> IF r \in started THEN "periods" ELSE "idle"]
    /\ dbJournalEntries = {}
    /\ dbJournalLines = {}
    /\ dbJournalLineDimensions = {}

\* main calls createJournalEntries once: in DB mode at each of the clock
\* values, in JSON mode at the last of them
InitJournal ==
    /\ \/ now \in Nows /\ jsonMode = FALSE
       \/ now = [y |-> 2025, m |-> 6, d |-> 30, ms |-> 43200000] /\ jsonMode = TRUE
    /\ \E passedOn \in {AllPeriods} : allPeriodsSorted = SortByStartsOn(passedOn)
    /\ InitJournalRuns({1})

\* the random values a run has used so far, on the cyclic tape
AdvanceRun(r, n) == rpos' = [rpos EXCEPT ![r] = (rpos[r] + n) % Len(tape)]

\* for (const period of allPeriodsSorted): the number of entries of the period
BeginPeriod(r) ==
    /\ pc[r] = "periods"
    /\ periodIdx[r] <= Len(allPeriodsSorted)
    /\ LET n == RandomInt(DrawFrom(rpos[r], 0), MinEntriesArg, MaxEntriesArg)
       IN  /\ numEntries' = [numEntries EXCEPT ![r] = n]
           /\ entryIdx' = [entryIdx EXCEPT ![r] = 0]
           /\ pc' = [pc EXCEPT ![r] = IF n > 0 THEN "entries" ELSE "periods"]
           /\ periodIdx' = [periodIdx EXCEPT ![r] = IF n > 0 THEN @ ELSE @ + 1]
    /\ AdvanceRun(r, 1)
    /\ UNCHANGED <<jsonMode, allPeriodsSorted, globalDisplayId, allJournalEntries, allJournalLines,
                   allJournalLineDimensions, dbVars, otherThanJournal>>

\* for (let i = 0; i < numEntries; i++): one journal entry and its lines
CreateJournalEntry(r) ==
    /\ pc[r] = "entries"
    /\ LET period == allPeriodsSorted[periodIdx[r]]
           e == createRandomJournalEntry(period, globalDisplayId[r],
                                         <<r, Len(allJournalEntries[r]) + 1>>,
                                         rpos[r])
           l == createRandomJournalLines(e.entry, JournalAccounts, rpos[r] + e.draws)
           last == entryIdx[r] + 1 >= numEntries[r]
       IN  /\ globalDisplayId' =
                [globalDisplayId EXCEPT ![r] = NextDisplayId(globalDisplayId[r])]
           /\ allJournalEntries' = [allJournalEntries EXCEPT ![r] = Append(@, e.entry)]
           /\ allJournalLines' = [allJournalLines EXCEPT ![r] = @ \o l.lines]
           /\ entryIdx' = [entryIdx EXCEPT ![r] = @ + 1]
           /\ pc' = [pc EXCEPT ![r] = IF last THEN "periods" ELSE "entries"]
           /\ periodIdx' = [periodIdx EXCEPT ![r] = IF last THEN @ + 1 ELSE @]
           /\ AdvanceRun(r, e.draws + l.draws)
    /\ UNCHANGED <<jsonMode, allPeriodsSorted, numEntries, allJournalLineDimensions, dbVars,
                   otherThanJournal>>

\* after the loop: createJournalLineDimensions, and in JSON mode the return
CreateDimensions(r) ==
    /\ pc[r] = "periods"
    /\ periodIdx[r] > Len(allPeriodsSorted)
    /\ allJournalLineDimensions' =
          [allJournalLineDimensions EXCEPT
              ![r] = createJournalLineDimensions(allJournalLines[r], rpos[r])]
    /\ pc' = [pc EXCEPT ![r] = IF jsonMode THEN "returned" ELSE "insertEntries"]
    /\ UNCHANGED <<jsonMode, allPeriodsSorted, rpos, globalDisplayId, periodIdx, numEntries, entryIdx,
                   allJournalEntries, allJournalLines, dbVars, otherThanJournal>>

\* where the run goes on after journalEntry.createMany
AfterEntries(r) ==
    IF Len(allJournalLines[r]) > 0 THEN "insertLines"
    ELSE IF Len(allJournalLineDimensions[r]) > 0 THEN "insertDimensions"
    ELSE "returned"

\* where the run goes on after journalLine.createMany
AfterLines(r) ==
    IF Len(allJournalLineDimensions[r]) > 0 THEN "insertDimensions" ELSE "returned"

\* await prisma.journalEntry.createMany({ data: allJournalEntries, skipDuplicates: true })
InsertJournalEntries(r) ==
    /\ pc[r] = "insertEntries"
    /\ dbJournalEntries' = InsertEntries(dbJournalEntries, allJournalEntries[r])
    /\ pc' = [pc EXCEPT ![r] = AfterEntries(r)]
    /\ UNCHANGED <<jsonMode, allPeriodsSorted, rpos, globalDisplayId, periodIdx, numEntries, entryIdx,
                   allJournalEntries, allJournalLines, allJournalLineDimensions,
                   dbJournalLines, dbJournalLineDimensions, otherThanJournal>>

\* await prisma.journalLine.createMany({ data: allJournalLines, skipDuplicates: true })
InsertJournalLines(r) ==
    /\ pc[r] = "insertLines"
    /\ LinesReferenceEntries(allJournalLines[r])
    /\ dbJournalLines' = InsertRows(dbJournalLines, allJournalLines[r])
    /\ pc' = [pc EXCEPT ![r] = AfterLines(r)]
    /\ UNCHANGED <<jsonMode, allPeriodsSorted, rpos, globalDisplayId, periodIdx, numEntries, entryIdx,
                   allJournalEntries, allJournalLines, allJournalLineDimensions,
                   dbJournalEntries, dbJournalLineDimensions, otherThanJournal>>

\* await prisma.journalLineDimension.createMany({ data: allJournalLineDimensions, ... })
InsertJournalLineDimensions(r) ==
    /\ pc[r] = "insertDimensions"
    /\ DimensionsReferenceLines(allJournalLineDimensions[r])
    /\ dbJournalLineDimensions' =
          InsertRows(dbJournalLineDimensions, allJournalLineDimensions[r])
    /\ pc' = [pc EXCEPT ![r] = "returned"]
    /\ UNCHANGED <<jsonMode, allPeriodsSorted, rpos, globalDisplayId, periodIdx, numEntries, entryIdx,
                   allJournalEntries, allJournalLines, allJournalLineDimensions,
                   dbJournalEntries, dbJournalLines, otherThanJournal>>

\* a createMany rejects (a foreign key is violated, or the database is not
\* reachable): the statement inserts nothing, the earlier statements stay, and
\* main's catch logs the error and exits
CreateManyRejects(r) ==
    /\ \/ pc[r] = "insertEntries"
       \/ pc[r] = "insertLines"
       \/ pc[r] = "insertDimensions"
    /\ pc' = [pc EXCEPT ![r] = "failed"]
    /\ UNCHANGED <<jsonMode, allPeriodsSorted, rpos, globalDisplayId, periodIdx, numEntries, entryIdx,
                   allJournalEntries, allJournalLines, allJournalLineDimensions,
                   dbVars, otherThanJournal>>

NextJournal ==
    \E r \in Runs :
        \/ BeginPeriod(r)
        \/ CreateJournalEntry(r)
        \/ CreateDimensions(r)
        \/ InsertJournalEntries(r)
        \/ InsertJournalLines(r)
        \/ InsertJournalLineDimensions(r)
        \/ CreateManyRejects(r)

\* one run of createJournalEntries
Spec == InitJournal /\ [][NextJournal]_vars

\* two calls of the exported createJournalEntries on the same companies,
\* accounts and periods (the first RacePeriods periods of 2024), running at the
\* same time on one database
InitRace ==
    /\ now = [y |-> 2025, m |-> 6, d |-> 30, ms |-> 43200000]
    /\ jsonMode = FALSE
    /\ \E passedOn \in {AllPeriods} :
          allPeriodsSorted = SubSeq(SortByStartsOn(passedOn), 1, RacePeriods)
    /\ InitJournalRuns(Runs)

SpecRace == InitRace /\ [][NextJournal]_vars

----------------------------------------------------------------------------
(* Properties of the journal entries *)

\* journalLines of one entry
LinesOfEntry(r, journalEntry) ==
    SelectSeq(allJournalLines[r], LAMBDA l : l.journalEntryId = journalEntry.id)

RECURSIVE SumOfAmounts(_)
SumOfAmounts(lines) ==
    IF lines = <<>> THEN 0 ELSE Head(lines).amount + SumOfAmounts(Tail(lines))

EntriesOf(r) == {allJournalEntries[r][i] : i \in 1 .. Len(allJournalEntries[r])}

\* the run has left the loop over the periods: its entries and lines are made
Generated(r) ==
    pc[r] \in {"insertEntries", "insertLines", "insertDimensions", "returned", "failed"}

\* C1: after a run has created its journal entries, every entry whose status
\* is Scheduled or Posted and that has at least one line has lines whose
\* amounts sum to zero
BalanceLaw ==
    \A r \in Runs : Generated(r) =>
        \A e \in EntriesOf(r) :
            (e.status \in {"Scheduled", "Posted"} /\ Len(LinesOfEntry(r, e)) >= 1)
                => SumOfAmounts(LinesOfEntry(r, e)) = 0

\* a run that made a posted entry with three or more lines of nonzero amount
BalanceLawWitness ==
    \E r \in Runs :
        /\ Generated(r)
        /\ \E e \in EntriesOf(r) :
              /\ e.status = "Posted"
              /\ Len(LinesOfEntry(r, e)) >= 3
              /\ \A i \in 1 .. Len(LinesOfEntry(r, e)) : LinesOfEntry(r, e)[i].amount # 0

\* C2: for every company the displayIds of its entries are strictly increasing
\* in the order of creation, hence without duplicates
DisplayIdMonotonic ==
    \A r \in Runs : Generated(r) =>
        \A i, j \in 1 .. Len(allJournalEntries[r]) :
            (i < j /\ allJournalEntries[r][i].companyId = allJournalEntries[r][j].companyId)
                => allJournalEntries[r][i].displayId < allJournalEntries[r][j].displayId

\* a run that made two entries of one company with an entry of another
\* company between them
DisplayIdMonotonicWitness ==
    \E r \in Runs :
        /\ Generated(r)
        /\ \E i, j, k \in 1 .. Len(allJournalEntries[r]) :
              /\ i < k /\ k < j
              /\ allJournalEntries[r][i].companyId = allJournalEntries[r][j].companyId
              /\ allJournalEntries[r][k].companyId # allJournalEntries[r][i].companyId

\* the displayIds given before the i-th entry of the run to the companies of the set
EarlierDisplayIds(r, i, companyIds) ==
    {allJournalEntries[r][j].displayId :
        j \in {k \in 1 .. (i - 1) : allJournalEntries[r][k].companyId \in companyIds}}

Maximum(S) == CHOOSE m \in S : \A n \in S : n <= m

OnePlusMaximum(S) == IF S = {} THEN 1 ELSE Maximum(S) + 1

\* C3 as stated: every entry gets 1 + the greatest displayId of the earlier
\* entries of the same company, and the first entry of a company gets 1
DisplayIdPerCompany ==
    \A r \in Runs : Generated(r) =>
        \A i \in 1 .. Len(allJournalEntries[r]) :
            allJournalEntries[r][i].displayId =
                OnePlusMaximum(EarlierDisplayIds(r, i, {allJournalEntries[r][i].companyId}))

\* C3 as amended: every entry gets 1 + the greatest displayId of the earlier
\* entries of the run, of whatever company, and the first entry of the run gets 1
DisplayIdPerRun ==
    \A r \in Runs : Generated(r) =>
        \A i \in 1 .. Len(allJournalEntries[r]) :
            allJournalEntries[r][i].displayId =
                OnePlusMaximum(EarlierDisplayIds(r, i, 1 .. NumCompanies))

\* a run in which the first entry of a second company came after an entry of
\* another company
DisplayIdPerRunWitness ==
    \E r \in Runs :
        /\ Generated(r)
        /\ \E i \in 2 .. Len(allJournalEntries[r]) :
              /\ allJournalEntries[r][i].companyId # allJournalEntries[r][1].companyId
              /\ EarlierDisplayIds(r, i, {allJournalEntries[r][i].companyId}) = {}
              /\ allJournalEntries[r][i].displayId > 1

\* C4 as stated: two concurrent creations for the same companies both
\* succeed: once a run's createMany of its entries has returned, each of its
\* entries is stored, so that the stored entries of a company bear the
\* distinct displayIds of both runs
ConcurrentCreationsSucceed ==
    \A r \in Runs :
        (~jsonMode /\ pc[r] \in {"insertLines", "insertDimensions", "returned"})
            => EntriesOf(r) \subseteq dbJournalEntries

\* C5 as stated: if a createMany of the operation fails, no journal entry of
\* the operation remains stored
AllOrNothing ==
    \A r \in Runs :
        pc[r] = "failed" => EntriesOf(r) \cap dbJournalEntries = {}

\* the period a journal entry references
PeriodOfEntry(journalEntry) ==
    CHOOSE p \in Range(allPeriodsSorted) : p.id = journalEntry.periodId

\* the account a journal line references
AccountOfLine(journalLine) ==
    CHOOSE a \in Range(JournalAccounts) : a.id = journalLine.accountId

\* C14: every journal entry whose period starts after the run's clock has
\* status Scheduled, so that Draft and Posted occur only in periods that have
\* started
FuturePeriodScheduled ==
    \A r \in Runs : Generated(r) =>
        \A e \in EntriesOf(r) :
            Before(NowInstant, PeriodOfEntry(e).startsOn) => e.status = "Scheduled"

\* a run with an entry of a future period and, in a period that starts at the
\* very instant of the clock, an entry that is not Scheduled
FuturePeriodScheduledWitness ==
    \E r \in Runs :
        /\ Generated(r)
        /\ \E e \in EntriesOf(r) : Before(NowInstant, PeriodOfEntry(e).startsOn)
        /\ \E e \in EntriesOf(r) :
              /\ PeriodOfEntry(e).startsOn = NowInstant
              /\ e.status \in {"Draft", "Posted"}

\* C15: the account of every line of an entry dated at or after the run's
\* clock is active; only lines of entries dated before it reference inactive
\* accounts
FutureLinesUseActiveAccounts ==
    \A r \in Runs : Generated(r) =>
        \A e \in EntriesOf(r) :
            ~Before(e.transactionDate, NowInstant) =>
                \A i \in 1 .. Len(LinesOfEntry(r, e)) :
                    AccountOfLine(LinesOfEntry(r, e)[i]).active

\* a run with a line of an entry dated after the clock, and a line of an entry
\* dated before it on an inactive account
FutureLinesUseActiveAccountsWitness ==
    \E r \in Runs :
        /\ Generated(r)
        /\ \E e \in EntriesOf(r) :
              /\ ~Before(e.transactionDate, NowInstant)
              /\ Len(LinesOfEntry(r, e)) >= 2
        /\ \E e \in EntriesOf(r) :
              /\ Before(e.transactionDate, NowInstant)
              /\ \E i \in 1 .. Len(LinesOfEntry(r, e)) :
                    ~AccountOfLine(LinesOfEntry(r, e)[i]).active

\* C16: the transaction date of every journal entry lies within its period,
\* the two ends included
TransactionDateInPeriod ==
    \A r \in Runs : Generated(r) =>
        \A e \in EntriesOf(r) :
            /\ ~Before(e.transactionDate, PeriodOfEntry(e).startsOn)
            /\ ~Before(PeriodOfEntry(e).endsOn, e.transactionDate)

\* a run with an entry dated at the first instant of its period and an entry
\* dated in the last tenth of its period
TransactionDateInPeriodWitness ==
    \E r \in Runs :
        /\ Generated(r)
        /\ \E e \in EntriesOf(r) : e.transactionDate = PeriodOfEntry(e).startsOn
        /\ \E e \in EntriesOf(r) :
              10 * (PeriodOfEntry(e).endsOn.day - e.transactionDate.day)
                  < PeriodOfEntry(e).endsOn.day - PeriodOfEntry(e).startsOn.day

\* the run has made its dimension tags
Tagged(r) == pc[r] \in {"insertEntries", "insertLines", "insertDimensions", "returned", "failed"}

TagsOf(r) ==
    {allJournalLineDimensions[r][i] : i \in 1 .. Len(allJournalLineDimensions[r])}

\* C17: the dimension tags of a journal line refer to pairwise distinct
\* dimensions
DistinctDimensionsPerLine ==
    \A r \in Runs : Tagged(r) =>
        \A a, b \in TagsOf(r) :
            (a.journalLineId = b.journalLineId /\ a.dimensionId = b.dimensionId) => a = b

\* a run with a line that carries three tags
DistinctDimensionsPerLineWitness ==
    \E r \in Runs :
        /\ Tagged(r)
        /\ \E a \in TagsOf(r) :
              Cardinality({b \in TagsOf(r) : b.journalLineId = a.journalLineId}) = 3

\* the entries of the run that belong to the period
EntriesOfPeriod(r, period) ==
    SelectSeq(allJournalEntries[r], LAMBDA e : e.periodId = period.id)

\* the sum of the amounts of the lines of the entries number i and up of the list
RECURSIVE PeriodTotalFrom(_, _, _)
PeriodTotalFrom(r, entries, i) ==
    IF i > Len(entries) THEN 0
    ELSE SumOfAmounts(LinesOfEntry(r, entries[i])) + PeriodTotalFrom(r, entries, i + 1)

\* C18: for every period of every company the sums per account of the lines of
\* the period's entries add up to zero; the sum of the sums per account is the
\* sum over all the lines of the period
TrialBalanceZero ==
    \A r \in Runs : Generated(r) =>
        \A p \in Range(allPeriodsSorted) :
            PeriodTotalFrom(r, EntriesOfPeriod(r, p), 1) = 0

\* a run with a period that has two entries with lines of nonzero amount
TrialBalanceZeroWitness ==
    \E r \in Runs :
        /\ Generated(r)
        /\ \E e, f \in EntriesOf(r) :
              /\ e # f
              /\ e.periodId = f.periodId
              /\ \E i \in 1 .. Len(LinesOfEntry(r, e)) : LinesOfEntry(r, e)[i].amount # 0
              /\ \E i \in 1 .. Len(LinesOfEntry(r, f)) : LinesOfEntry(r, f)[i].amount # 0

\* C24 - display ids increase chronologically: of any two entries of a run,
\* of one company or of two, the one whose period starts strictly earlier has
\* the smaller displayId.  Stated on the neighbours of the run's list of
\* entries: the displayId increases from each entry to the next and the start
\* of the period never goes back, which gives every pair since both orders
\* are transitive.
DisplayIdChronological ==
    \A r \in Runs : Generated(r) =>
        \A i \in 2 .. Len(allJournalEntries[r]) :
            LET e == allJournalEntries[r][i - 1]
                f == allJournalEntries[r][i]
            IN  /\ e.displayId < f.displayId
                /\ ~Before(PeriodOfEntry(f).startsOn, PeriodOfEntry(e).startsOn)

\* C24 witness: an entry of the second company in a period that starts before
\* the period of an entry of the first company, whose periods come first in
\* the list passed to createJournalEntries
DisplayIdChronologicalWitness ==
    \E r \in Runs :
        /\ Generated(r)
        /\ \E e, f \in EntriesOf(r) :
              /\ e.companyId = 2
              /\ f.companyId = 1
              /\ Before(PeriodOfEntry(e).startsOn, PeriodOfEntry(f).startsOn)
              /\ e.displayId < f.displayId

----------------------------------------------------------------------------
(* createPeriods of generateData.ts, called twice for the same companies and *)
(* the same years on one database                                           *)

\* createPeriods: the periods of the companies 1 .. n for startYear .. endYear
RECURSIVE PeriodsOfCompaniesIn(_, _, _)
PeriodsOfCompaniesIn(n, y1, y2) ==
    IF n = 0 THEN <<>>
    ELSE PeriodsOfCompaniesIn(n - 1, y1, y2) \o PeriodsFrom(CompanyOf(n), y1, 1, y2)

\* the rows of one call, each with the id createId() gave it
PeriodRows(call, ps) ==
    [i \in 1 .. Len(ps) |-> [id |-> <<call, i>>, period |-> ps[i]]]

\* a slip: only the primary key is unique
SamePeriodId(a, b) == a.id = b.id

\* model Period: @id, @@unique([companyId, displayName]) and
\* @@unique([companyId, startsOn, endsOn]), the two dates being @db.Date
SamePeriodKey(a, b) ==
    \/ a.id = b.id
    \/ /\ a.period.companyId = b.period.companyId
       /\ \/ a.period.displayName = b.period.displayName
          \/ /\ a.period.startsOn.day = b.period.startsOn.day
             /\ a.period.endsOn.day = b.period.endsOn.day

\* prisma.period.createMany({ data: allPeriods, skipDuplicates: true }):
\* INSERT ... ON CONFLICT DO NOTHING keeps the rows already stored and, of the
\* rows of the statement that conflict with one another, the first
InsertPeriods(table, rows) ==
    table \cup
      { rows[k] : k \in { i \in 1 .. Len(rows) :
                            /\ \A e \in table : ~SamePeriodKey(e, rows[i])
                            /\ \A j \in 1 .. (i - 1) : ~SamePeriodKey(rows[j], rows[i]) } }

InitCreatePeriods ==
    /\ script = "generateData"
    /\ now \in Nows
    /\ company = CompanyOf(1)
    /\ startYear \in YearArgs
    /\ endYear \in YearArgs
    /\ year = 0
    /\ month = 0
    /\ quarter = 0
    /\ periods = <<>>
    /\ pcPeriods = "idle"
    /\ AccountsIdle
    /\ JournalIdle
    /\ GenIdle
    /\ HelperIdle
    /\ AmountsIdle
    /\ WaiterIdle
    /\ callIdx = 1
    /\ allPeriods = [c \in Calls |-> <<>>]
    /\ pcCreatePeriods = "generate"
    /\ dbPeriods = {}

\* for (const company of companies) allPeriods.push(...), and in JSON mode the
\* return
GenerateAllPeriods ==
    /\ pcCreatePeriods = "generate"
    /\ allPeriods' =
          [allPeriods EXCEPT
              ![callIdx] = PeriodRows(callIdx,
                                      PeriodsOfCompaniesIn(NumCompanies, startYear, endYear))]
    /\ pcCreatePeriods' = IF jsonMode THEN "returned" ELSE "insert"
    /\ UNCHANGED <<now, callIdx, dbPeriods, otherThanCreatePeriods>>

\* await prisma.period.createMany({ data: allPeriods, skipDuplicates: true })
InsertAllPeriods ==
    /\ pcCreatePeriods = "insert"
    /\ dbPeriods' = InsertPeriods(dbPeriods, allPeriods[callIdx])
    /\ pcCreatePeriods' = "returned"
    /\ UNCHANGED <<now, callIdx, allPeriods, otherThanCreatePeriods>>

\* the script is run again with the same arguments, at the same time or later
CallCreatePeriodsAgain ==
    /\ pcCreatePeriods = "returned"
    /\ callIdx = 1
    /\ callIdx' = 2
    /\ now' \in {n \in Nows : ~Before([day |-> DayNumber(n.y, n.m, n.d), ms |-> n.ms],
                                      NowInstant)}
    /\ pcCreatePeriods' = "generate"
    /\ UNCHANGED <<allPeriods, dbPeriods, otherThanCreatePeriods>>

NextCreatePeriods ==
    \/ GenerateAllPeriods
    \/ InsertAllPeriods
    \/ CallCreatePeriodsAgain

SpecCreatePeriods == InitCreatePeriods /\ [][NextCreatePeriods]_vars

\* C13: after createPeriods has run a second time for the same companies and
\* years, the table holds exactly the rows the first run stored, unchanged, and
\* no two rows share (companyId, displayName) or (companyId, startsOn, endsOn)
IdempotentPeriods ==
    pcCreatePeriods = "returned" =>
        /\ dbPeriods = {allPeriods[1][i] : i \in 1 .. Len(allPeriods[1])}
        /\ \A a, b \in dbPeriods : SamePeriodKey(a, b) => a = b

\* the second run has returned; the clock had moved on, so that a period the
\* first run stored as open was generated as closed by the second
IdempotentPeriodsWitness ==
    /\ pcCreatePeriods = "returned"
    /\ callIdx = 2
    /\ \E i \in 1 .. Len(allPeriods[1]) :
          /\ allPeriods[1][i] \in dbPeriods
          /\ allPeriods[1][i].period.status = "open"
          /\ allPeriods[2][i].period.status = "closed"

----------------------------------------------------------------------------
(* main of generateData.ts: organizations, companies and the create steps   *)
(* that follow them.  A name is the sequence of its characters.  The rows a *)
(* later step makes keep their table, the id of their company and the place *)
(* of that company in the list of companies.                                *)

\* --orgs and --companies: the largest values of the arguments
MaxOrgs == 2
MaxCompaniesPerOrg == 2

\* values of faker.company.name(): "Kihn Inc" and "Kihn - Hane"
CompanyNames ==
    { <<"K", "i", "h", "n", " ", "I", "n", "c">>,
      <<"K", "i", "h", "n", " ", "-", " ", "H", "a", "n", "e">> }

\* String.prototype.toLowerCase on one character
LowerOf(ch) ==
    CASE ch = "A" -> "a" [] ch = "K" -> "k" [] ch = "I" -> "i" [] ch = "H" -> "h"
      [] OTHER -> ch

\* the characters the class [a-z0-9\s] keeps
KeptCharacters == {"a", "c", "e", "h", "i", "k", "n", " "}

\* _.trim(name): no whitespace at either end
RECURSIVE Trim(_)
Trim(name) ==
    IF name = <<>> THEN <<>>
    ELSE IF Head(name) = " " THEN Trim(Tail(name))
    ELSE IF name[Len(name)] = " " THEN Trim(SubSeq(name, 1, Len(name) - 1))
    ELSE name

\* _.kebabCase of lower-case letters and spaces: the words, which the spaces
\* separate, joined by hyphens
RECURSIVE KebabFrom(_, _, _)
KebabFrom(rest, out, gap) ==
    IF rest = <<>> THEN out
    ELSE IF Head(rest) = " " THEN KebabFrom(Tail(rest), out, TRUE)
    ELSE KebabFrom(Tail(rest),
                   out \o (IF gap /\ out # <<>> THEN <<"-">> ELSE <<>>) \o <<Head(rest)>>,
                   FALSE)

kebabCase(string) == KebabFrom(string, <<>>, FALSE)

\* generateIdFromName(name)
generateIdFromName(name) ==
    LET trimmed == [i \in 1 .. Len(Trim(name)) |-> LowerOf(Trim(name)[i])]
        alphanumericOnly == SelectSeq(trimmed, LAMBDA ch : ch \in KeptCharacters)
    IN  kebabCase(alphanumericOnly)

\* createRandomOrganization(), with the name faker returns
createRandomOrganization(fullName) ==
    [id |-> generateIdFromName(fullName), fullName |-> fullName]

\* createRandomCompany(organization), with the name faker returns
createRandomCompany(organization, name) ==
    [id |-> generateIdFromName(name), name |-> name, organizationId |-> organization.id]

\* organization.createMany({skipDuplicates: true}): the primary key is id
RECURSIVE InsertOrganizations(_, _)
InsertOrganizations(table, rows) ==
    IF rows = <<>> THEN table
    ELSE InsertOrganizations(
             IF \E t \in table : t.id = Head(rows).id THEN table
             ELSE table \cup {Head(rows)},
             Tail(rows))

\* company.createMany({skipDuplicates: true}): the primary key is id, and
\* (organizationId, name) is unique
RECURSIVE InsertCompanies(_, _)
InsertCompanies(table, rows) ==
    IF rows = <<>> THEN table
    ELSE InsertCompanies(
             IF \E t \in table :
                   \/ t.id = Head(rows).id
                   \/ t.organizationId = Head(rows).organizationId
                      /\ t.name = Head(rows).name
             THEN table
             ELSE table \cup {Head(rows)},
             Tail(rows))

\* the create functions main calls after createCompanies, in the order of the
\* calls, each with the tables it writes; always is FALSE for a createMany
\* under an if (rows.length > 0)
GenSteps ==
    << <<[table |-> "user", always |-> TRUE]>>,
       <<[table |-> "account", always |-> TRUE]>>,
       <<[table |-> "period", always |-> TRUE]>>,
       <<[table |-> "dimension", always |-> TRUE]>>,
       <<[table |-> "dimensionValue", always |-> TRUE]>>,
       <<[table |-> "vendor", always |-> FALSE]>>,
       <<[table |-> "customer", always |-> FALSE]>>,
       <<[table |-> "task", always |-> FALSE]>>,
       <<[table |-> "journalEntry", always |-> TRUE],
         [table |-> "journalLine", always |-> FALSE],
         [table |-> "journalLineDimension", always |-> FALSE]>> >>

GenTables == UNION {{GenSteps[i][j].table : j \in 1 .. Len(GenSteps[i])} : i \in 1 .. Len(GenSteps)}

\* the rows a create function makes for a table: one for each company
RowsOfCompanies(table, companies) ==
    [i \in 1 .. Len(companies) |->
        [table |-> table, companyId |-> companies[i].id, company |-> i]]

\* a slip: the JSON mode is not looked at
NeverReturnsGeneratedData(json) == FALSE

\* if (jsonMode) return the generated data, before the createMany
ReturnsGeneratedData(json) == json

InitGen ==
    /\ gen \in [pc : {"organizations"},
                jsonMode : BOOLEAN,
                numOrgs : 1 .. MaxOrgs,
                companiesPerOrg : 0 .. MaxCompaniesPerOrg,
                organizations : {<<>>},
                companies : {<<>>},
                rows : {[t \in GenTables |-> <<>>]},
                step : {1},
                createMany : {<<>>},
                dbOrganizations : {{}},
                dbCompanies : {{}},
                printed : {FALSE}]
    /\ script = "generateData"
    /\ now \in {CHOOSE n \in Nows : TRUE}
    /\ company = CompanyOf(1)
    /\ PeriodsIdle
    /\ AccountsIdle
    /\ JournalIdle
    /\ CreatePeriodsIdle
    /\ HelperIdle
    /\ AmountsIdle
    /\ WaiterIdle

\* createOrganizations: one pass of the loop
CreateOrganization ==
    /\ gen.pc = "organizations"
    /\ Len(gen.organizations) < gen.numOrgs
    /\ \E fullName \in CompanyNames :
          gen' = [gen EXCEPT !.organizations = Append(@, createRandomOrganization(fullName))]
    /\ UNCHANGED otherThanGen

\* createOrganizations: after the loop, the return in JSON mode or the
\* createMany
ReturnOrganizations ==
    /\ gen.pc = "organizations"
    /\ Len(gen.organizations) = gen.numOrgs
    /\ gen' = IF ReturnsGeneratedData(gen.jsonMode)
              THEN [gen EXCEPT !.pc = "companies"]
              ELSE [gen EXCEPT !.pc = "companies",
                               !.createMany = Append(@, "organization"),
                               !.dbOrganizations = InsertOrganizations(@, gen.organizations)]
    /\ UNCHANGED otherThanGen

\* createCompanies: one company of the organization whose turn it is
CreateCompany ==
    /\ gen.pc = "companies"
    /\ Len(gen.companies) < gen.numOrgs * gen.companiesPerOrg
    /\ LET organization == gen.organizations[(Len(gen.companies) \div gen.companiesPerOrg) + 1]
       IN  \E name \in CompanyNames :
              gen' = [gen EXCEPT !.companies = Append(@, createRandomCompany(organization, name))]
    /\ UNCHANGED otherThanGen

\* createCompanies: after the loops, the return in JSON mode or the createMany
ReturnCompanies ==
    /\ gen.pc = "companies"
    /\ Len(gen.companies) = gen.numOrgs * gen.companiesPerOrg
    /\ gen' = IF ReturnsGeneratedData(gen.jsonMode)
              THEN [gen EXCEPT !.pc = "steps"]
              ELSE [gen EXCEPT !.pc = "steps",
                               !.createMany = Append(@, "company"),
                               !.dbCompanies = InsertCompanies(@, gen.companies)]
    /\ UNCHANGED otherThanGen

\* the createMany calls of a create function in DB mode
CreateManyCalls(tables, companies) ==
    SelectSeq([j \in 1 .. Len(tables) |-> tables[j].table],
              LAMBDA t : \E j \in 1 .. Len(tables) :
                  tables[j].table = t /\ (tables[j].always \/ companies # <<>>))

\* createUsers ... createJournalEntries: the rows, then the return in JSON
\* mode or the createMany calls
CreateStep ==
    /\ gen.pc = "steps"
    /\ LET tables == GenSteps[gen.step]
           names == {tables[j].table : j \in 1 .. Len(tables)}
       IN  gen' = [gen EXCEPT
                     !.rows = [t \in GenTables |->
                                 IF t \in names THEN RowsOfCompanies(t, gen.companies)
                                 ELSE @[t]],
                     !.createMany = IF ReturnsGeneratedData(gen.jsonMode) THEN @
                                    ELSE @ \o CreateManyCalls(tables, gen.companies),
                     !.step = IF @ < Len(GenSteps) THEN @ + 1 ELSE @,
                     !.pc = IF gen.step < Len(GenSteps) THEN @ ELSE "output"]
    /\ UNCHANGED otherThanGen

\* main: in JSON mode the output is printed; the data is returned
PrintAndReturn ==
    /\ gen.pc = "output"
    /\ gen' = [gen EXCEPT !.pc = "done", !.printed = gen.jsonMode]
    /\ UNCHANGED otherThanGen

\* main: a createMany throws, the catch ends the process
GenCreateManyThrows ==
    /\ ~ReturnsGeneratedData(gen.jsonMode)
    /\ \/ gen.pc = "organizations" /\ Len(gen.organizations) = gen.numOrgs
       \/ gen.pc = "companies" /\ Len(gen.companies) = gen.numOrgs * gen.companiesPerOrg
       \/ gen.pc = "steps"
    /\ gen' = [gen EXCEPT !.pc = "exit(1)"]
    /\ UNCHANGED otherThanGen

NextGen ==
    \/ CreateOrganization
    \/ ReturnOrganizations
    \/ CreateCompany
    \/ ReturnCompanies
    \/ CreateStep
    \/ PrintAndReturn
    \/ GenCreateManyThrows

SpecGen == InitGen /\ [][NextGen]_vars

\* C22 - identifiers are never reused: two distinct organizations of a run
\* have different ids, two distinct companies of a run have different ids, and
\* so no account, period or journal entry carries a company id that two
\* companies share.
IdsNeverReused ==
    gen.pc # "idle" =>
        /\ \A i, j \in 1 .. Len(gen.organizations) :
              i # j => gen.organizations[i].id # gen.organizations[j].id
        /\ \A i, j \in 1 .. Len(gen.companies) :
              i # j => gen.companies[i].id # gen.companies[j].id
        /\ \A t \in {"account", "period", "journalEntry"} :
              \A k \in 1 .. Len(gen.rows[t]) :
                 \A i \in 1 .. Len(gen.companies) :
                    gen.companies[i].id = gen.rows[t][k].companyId
                        => i = gen.rows[t][k].company

\* C23 - in JSON mode no create step issues a createMany, no table is
\* written, and a run that ends has printed the generated data.
JsonModeWritesNothing ==
    (gen.pc # "idle" /\ gen.jsonMode) =>
        /\ gen.createMany = <<>>
        /\ gen.dbOrganizations = {}
        /\ gen.dbCompanies = {}
        /\ gen.pc = "done" => gen.printed

\* C23 witness: a run in JSON mode has ended with companies, accounts and
\* journal lines generated and printed
JsonModeWritesNothingWitness ==
    /\ gen.pc = "done"
    /\ gen.jsonMode
    /\ gen.printed
    /\ gen.companies # <<>>
    /\ gen.rows["account"] # <<>>
    /\ gen.rows["journalLine"] # <<>>

----------------------------------------------------------------------------
(* createRandomJournalLines on amounts of their full width.  An amount is    *)
(* [thousands, units] and stands for thousands * 1000 + units, with units in *)
(* 0 .. 999, so that a sum beyond 32 bits is a value like any other.         *)

Wide(thousands, units) == [thousands |-> thousands, units |-> units]

\* a + b
Plus(a, b) ==
    LET units == a.units + b.units
    IN  Wide(a.thousands + b.thousands + (units \div 1000), units % 1000)

\* -a
Negated(a) ==
    IF a.units = 0 THEN Wide(-a.thousands, 0)
    ELSE Wide(-a.thousands - 1, 1000 - a.units)

\* a <= b
AtMost(a, b) ==
    \/ a.thousands < b.thousands
    \/ a.thousands = b.thousands /\ a.units <= b.units

\* faker.number.int({ min: -500000000, max: 500000000 })
MinRandomAmount == Wide(-500000, 0)
MaxRandomAmountWider == Wide(600000, 0)
MaxRandomAmount == Wide(500000, 0)

\* the values drawn: both ends of the range, -1, 0 and 1
RandomAmounts == {MinRandomAmount, Wide(-1, 999), Wide(0, 0), Wide(0, 1), MaxRandomAmount}

\* while (amount === 0) draws again: the amount of a line is not 0
NonZeroAmounts == {a \in RandomAmounts : a # Wide(0, 0)}

\* the Int column of journal_lines.amount: a signed integer of 32 bits,
\* -2147483648 .. 2147483647
Int32Min == Wide(-2147484, 352)
Int32Max == Wide(2147483, 647)

\* max of numLines for the number of classifications of the accounts
MaxNumLines(classifications) ==
    Min(MAX_JOURNAL_LINES_PER_ENTRY, IF classifications > 1 THEN classifications ELSE 5)

InitAmounts ==
    /\ amounts \in UNION { [pc : {"lines"},
                            classifications : {c},
                            numLines : 2 .. MaxNumLines(c),
                            journalLines : {<<>>},
                            totalAmount : {Wide(0, 0)}] :
                           c \in 1 .. Len(AccountClassification) }
    /\ script = "generateData"
    /\ now \in {CHOOSE n \in Nows : TRUE}
    /\ company = CompanyOf(1)
    /\ PeriodsIdle
    /\ AccountsIdle
    /\ JournalIdle
    /\ CreatePeriodsIdle
    /\ GenIdle
    /\ HelperIdle
    /\ WaiterIdle

\* the 10% case: a single line with amount 0
SingleZeroLine ==
    /\ amounts.pc = "lines"
    /\ amounts.journalLines = <<>>
    /\ amounts' = [amounts EXCEPT !.journalLines = <<Wide(0, 0)>>, !.pc = "done"]
    /\ UNCHANGED otherThanAmounts

\* one pass of the loop over the first numLines - 1 lines
AddRandomLine ==
    /\ amounts.pc = "lines"
    /\ Len(amounts.journalLines) < amounts.numLines - 1
    /\ \E amount \in NonZeroAmounts :
          amounts' = [amounts EXCEPT !.totalAmount = Plus(@, amount),
                                     !.journalLines = Append(@, amount)]
    /\ UNCHANGED otherThanAmounts

\* the balancing line, amount: -totalAmount
AddBalancingLine ==
    /\ amounts.pc = "lines"
    /\ Len(amounts.journalLines) = amounts.numLines - 1
    /\ amounts' = [amounts EXCEPT !.journalLines = Append(@, Negated(amounts.totalAmount)),
                                  !.pc = "done"]
    /\ UNCHANGED otherThanAmounts

NextAmounts ==
    \/ SingleZeroLine
    \/ AddRandomLine
    \/ AddBalancingLine

SpecAmounts == InitAmounts /\ [][NextAmounts]_vars

\* C30 - every amount of a generated journal line, the balancing line
\* included, lies in -2147483648 .. 2147483647, the range of a signed integer
\* of 32 bits.
AmountsFitInt32 ==
    amounts.pc # "idle" =>
        \A i \in 1 .. Len(amounts.journalLines) :
            /\ AtMost(Int32Min, amounts.journalLines[i])
            /\ AtMost(amounts.journalLines[i], Int32Max)

\* C30 witness: five lines, four of them of the least amount and the
\* balancing line of 2000000000
AmountsFitInt32Witness ==
    /\ amounts.pc = "done"
    /\ Len(amounts.journalLines) = MAX_JOURNAL_LINES_PER_ENTRY
    /\ \A i \in 1 .. 4 : amounts.journalLines[i] = MinRandomAmount
    /\ amounts.journalLines[5] = Wide(2000000, 0)

----------------------------------------------------------------------------
(* ClackWrapper.waitForDockerContainerToBeRunning of apiSetupHelper.ts       *)

\* number of passes of the while loop that fit into the 30 seconds of the
\* timer, a pass taking 250 ms and the time of the docker command
MaxPolls == 3

\* State of asJson[0]; Health "none" stands for a container without a health
\* check, whose State has no Health
ContainerStates ==
    [Running : BOOLEAN, Restarting : BOOLEAN,
     Health : {"none", "starting", "healthy", "unhealthy"}]

\* a slip: a restarting container counts as running
ContainerRunningOrRestarting(state, checkForHealthy) == state.Running /\ (checkForHealthy => state.Health = "healthy")

\* containerRunning after a pass of the loop
ContainerRunning(state, checkForHealthy) ==
    /\ state.Running
    /\ ~state.Restarting
    /\ checkForHealthy => state.Health = "healthy"

\* asJson[0].State.Health.Status is read, under checkForHealthy, only when the
\* container runs and does not restart; without Health the read throws
HealthReadThrows(state, checkForHealthy) ==
    /\ checkForHealthy
    /\ state.Running
    /\ ~state.Restarting
    /\ state.Health = "none"

InitWait ==
    /\ waiter \in [pc : {"polling"},
                   checkForHealthy : BOOLEAN,
                   containerRunning : {FALSE},
                   polls : {0},
                   inspected : {<<>>},
                   timeout : {"armed"},
                   exitCode : {-1}]
    /\ script = "apiSetupHelper"
    /\ now \in {CHOOSE n \in Nows : TRUE}
    /\ company = CompanyOf(1)
    /\ PeriodsIdle
    /\ AccountsIdle
    /\ JournalIdle
    /\ CreatePeriodsIdle
    /\ GenIdle
    /\ HelperIdle
    /\ AmountsIdle

\* one pass of the while loop in which docker container inspect answers and
\* the answer is read without an exception; a running container ends the
\* loop, the timer is cleared and the function returns
InspectContainer ==
    /\ waiter.pc = "polling"
    /\ waiter.polls < MaxPolls
    /\ \E state \in ContainerStates :
          /\ ~HealthReadThrows(state, waiter.checkForHealthy)
          /\ LET containerRunning == ContainerRunning(state, waiter.checkForHealthy)
             IN  waiter' = [waiter EXCEPT
                              !.containerRunning = containerRunning,
                              !.inspected = <<state>>,
                              !.polls = @ + 1,
                              !.timeout = IF containerRunning THEN "cleared" ELSE @,
                              !.pc = IF containerRunning THEN "returned" ELSE @]
    /\ UNCHANGED otherThanWaiter

\* one pass of the while loop that throws: the docker command fails, its
\* output is no JSON, or State has no Health; the catch ends the process
InspectFails ==
    /\ waiter.pc = "polling"
    /\ waiter.polls < MaxPolls
    /\ \E inspected \in {<<>>} \cup
                        {<<state>> : state \in
                             {st \in ContainerStates :
                                  HealthReadThrows(st, waiter.checkForHealthy)}} :
          waiter' = [waiter EXCEPT !.inspected = inspected,
                                   !.polls = @ + 1,
                                   !.pc = "exited",
                                   !.exitCode = 1]
    /\ UNCHANGED otherThanWaiter

\* the callback of setTimeout(..., 30_000): this.exit with an Error
TimeoutFires ==
    /\ waiter.pc = "polling"
    /\ waiter.timeout = "armed"
    /\ waiter' = [waiter EXCEPT !.timeout = "fired", !.pc = "exited", !.exitCode = 1]
    /\ UNCHANGED otherThanWaiter

NextWait ==
    \/ InspectContainer
    \/ InspectFails
    \/ TimeoutFires

\* the timer of the event loop fires while the loop awaits
SpecWait == InitWait /\ [][NextWait]_vars /\ WF_vars(TimeoutFires)

\* C29 - waitForDockerContainerToBeRunning always ends, by a return or by an
\* exit of the script with an error, and it has returned only if the last
\* inspection reported the container running, not restarting and, when
\* checkForHealthy is set, healthy.
WaitAlwaysEnds ==
    /\ <>(waiter.pc \in {"returned", "exited"})
    /\ [](waiter.pc = "exited" => waiter.exitCode = 1)
    /\ [](waiter.pc = "returned" =>
             /\ Len(waiter.inspected) = 1
             /\ waiter.inspected[1].Running
             /\ ~waiter.inspected[1].Restarting
             /\ waiter.checkForHealthy => waiter.inspected[1].Health = "healthy")

\* C29 witness: the function has returned for a healthy container after a
\* pass that found the container not yet running
WaitAlwaysEndsWitness ==
    /\ waiter.pc = "returned"
    /\ waiter.checkForHealthy
    /\ waiter.polls > 1
    /\ waiter.timeout = "cleared"

----------------------------------------------------------------------------
(* apiSetupHelper.ts: main and the flows it starts.  The flow generateData   *)
(* is the one of the later version of the script, unnamed/part_002.         *)

\* calls of handleInitialUserCreation, and of handleInitialCompanyCreation,
\* that one run may start
MaxCalls == 2

ORG_ID == "avise-dev"

\* a step of a flow
Step(kind, name) == [kind |-> kind, name |-> name]

\* setupApiFromScratch
SetupApiFromScratch ==
    << Step("pnpm", "pnpm install"),
       Step("command", "docker compose down -v"),
       Step("command", "docker:login"),
       Step("pull", "docker compose pull"),
       Step("command", "docker compose up -d postgres"),
       Step("wait", "healthy"),
       Step("command", "docker compose down && docker compose up -d"),
       Step("command", "pnpm run migrate-local"),
       Step("sanity", "handleDbSanityCheck"),
       Step("user", "handleInitialUserCreation"),
       Step("company", "handleInitialCompanyCreation") >>

\* checkForReadyAndStart
CheckForReadyAndStart == <<Step("confirm", "ready")>>

\* doInitialSetup, doHelpMe, doCompleteRefresh and doGenerateData
FlowSteps(flow) ==
    CASE flow = "initialSetup" ->
             CheckForReadyAndStart \o <<Step("confirm", "dockerInstalled")>>
                 \o SetupApiFromScratch \o <<Step("success", "exit")>>
      [] flow = "helpMe" ->
             CheckForReadyAndStart \o
             << Step("pnpm", "pnpm install"),
                Step("command", "docker compose down"),
                Step("command", "docker:login"),
                Step("pull", "docker compose pull"),
                Step("command", "docker compose up -d"),
                Step("wait", "running"),
                Step("command", "pnpm run migrate-local"),
                Step("success", "exit") >>
      [] flow = "completeRefresh" ->
             CheckForReadyAndStart \o
             << Step("confirm", "understand"), Step("confirm", "doublyConfirm") >>
                 \o SetupApiFromScratch \o <<Step("success", "exit")>>
      [] flow = "generateData" ->
             CheckForReadyAndStart \o
             << Step("confirm", "dbEmpty"),
                Step("sanity", "handleDbSanityCheck"),
                Step("command", "pnpm run generate-data"),
                Step("success", "exit") >>

Flows == {"initialSetup", "helpMe", "completeRefresh", "generateData"}

\* the step the awaited chain of main is at
CurrentStep == FlowSteps(helper.flow)[helper.step]

\* answers to a prompt of @clack/prompts
Answers == {"yes", "no", "cancel"}

\* values typed at the text prompts; an email is the sequence of its parts
FullNames == {"Local User"}
Emails == { <<"local", "@", "avise.com">>, <<"ada">> }

\* the rows the database holds when the script starts: an organization, a
\* user, both or none
SeedRows ==
    { [table |-> "organization", id |-> "acme"],
      [table |-> "user", fullName |-> "Grace Hopper", email |-> <<"grace", "@", "avise.com">>] }

\* ClackWrapper.exit(exitMessage, err): process.exit(err ? 1 : 0)
Exit(err) == [helper EXCEPT !.pc = "exited", !.exitCode = IF err THEN 1 ELSE 0]

\* the awaited chain goes on with the next step
NextStep == [helper EXCEPT !.step = @ + 1]

InitHelper ==
    /\ helper \in [pc : {"running"},
                   flow : Flows,
                   step : {1},
                   exitCode : {-1},
                   confirmed : {<<>>},
                   commands : {<<>>},
                   pulls : {0},
                   pullError : {"none"},
                   sanity : {[checked |-> FALSE, org |-> FALSE, user |-> FALSE]},
                   composeDb : BOOLEAN,
                   db : SUBSET SeedRows,
                   calls : {<<>>},
                   approved : {{}},
                   declined : {{}},
                   writes : {<<>>}]
    /\ script = "apiSetupHelper"
    /\ now \in {CHOOSE n \in Nows : TRUE}
    /\ company = CompanyOf(1)
    /\ PeriodsIdle
    /\ AccountsIdle
    /\ JournalIdle
    /\ CreatePeriodsIdle
    /\ GenIdle
    /\ AmountsIdle
    /\ WaiterIdle

\* a slip: only a cancelled prompt ends the script
ExitsOnCancel(answer) == answer = "cancel"

\* ClackWrapper.confirm and the if (! usrReady) after it: the script ends
\* unless the answer is yes
ExitsOnAnswer(answer) == answer # "yes"

\* a confirmation of checkForReadyAndStart or of a flow
AnswerConfirm ==
    /\ helper.pc = "running"
    /\ CurrentStep.kind = "confirm"
    /\ \E answer \in Answers :
          helper' = IF ExitsOnAnswer(answer) THEN Exit(FALSE)
                    ELSE [NextStep EXCEPT
                            !.confirmed = Append(@, [prompt |-> CurrentStep.name,
                                                     answer |-> answer])]
    /\ UNCHANGED otherThanHelper

\* the rows of the database after a command that has succeeded
DbAfter(command) ==
    CASE command = "docker compose down -v" /\ helper.composeDb -> {}
      [] command = "pnpm run generate-data" ->
             helper.db \cup {[table |-> "organization", id |-> "generated"],
                             [table |-> "user", fullName |-> "Generated User",
                              email |-> <<"generated", "@", "avise.com">>]}
      [] OTHER -> helper.db

\* the seed records a command that has succeeded has written
WritesOf(command) ==
    IF command = "pnpm run generate-data" THEN <<[seed |-> "generate-data"]>> ELSE <<>>

\* doAsyncSpinner with exitOnFail left at true: the command succeeds, or the
\* catch calls exit with the error
RunCommand ==
    /\ helper.pc = "running"
    /\ CurrentStep.kind = "command"
    /\ \E succeeds \in BOOLEAN :
          helper' = IF succeeds
                    THEN [NextStep EXCEPT !.commands = Append(@, CurrentStep.name),
                                          !.db = DbAfter(CurrentStep.name),
                                          !.writes = @ \o WritesOf(CurrentStep.name)]
                    ELSE [Exit(TRUE) EXCEPT !.commands = Append(@, CurrentStep.name)]
    /\ UNCHANGED otherThanHelper

\* handlePnpmInstall(clackWrapper, true): the install with the frozen lockfile
\* and, when it fails, the install without, whose failure ends the script
PnpmInstall ==
    /\ helper.pc = "running"
    /\ CurrentStep.kind = "pnpm"
    /\ \E frozen, plain \in BOOLEAN :
          helper' =
             IF frozen
             THEN [NextStep EXCEPT !.commands = Append(@, "pnpm install --frozen-lockfile")]
             ELSE IF plain
             THEN [NextStep EXCEPT !.commands = @ \o <<"pnpm install --frozen-lockfile",
                                                       "pnpm install">>]
             ELSE [Exit(TRUE) EXCEPT !.commands = @ \o <<"pnpm install --frozen-lockfile",
                                                         "pnpm install">>]
    /\ UNCHANGED otherThanHelper

\* doAsyncSpinner, catch: if (exitOnFail) this.exit(errorMessage, err)
ExitsOnFail(exitOnFail) == exitOnFail

\* default of the parameter exitOnFail, which handleDockerPull does not set
DefaultExitOnFail == TRUE

\* handleDockerPull(clackWrapper, attempt), attempt being the number of pulls
\* made before: the exit at three attempts, the pull, and what follows a pull
\* that fails
DockerPull ==
    /\ helper.pc = "running"
    /\ CurrentStep.kind = "pull"
    /\ IF helper.pulls >= 3
       THEN helper' = Exit(TRUE)
       ELSE \E outcome \in {"ok", "i/o timeout", "no such image"} :
               helper' =
                  LET pulled == [helper EXCEPT
                                   !.pulls = @ + 1,
                                   !.commands = Append(@, CurrentStep.name),
                                   !.pullError = IF outcome = "ok" THEN @ ELSE outcome]
                  IN  IF outcome = "ok" THEN [pulled EXCEPT !.step = @ + 1]
                      ELSE IF ExitsOnFail(DefaultExitOnFail)
                      THEN [pulled EXCEPT !.pc = "exited", !.exitCode = 1]
                      ELSE IF outcome = "i/o timeout" THEN pulled
                      ELSE [pulled EXCEPT !.step = @ + 1]
    /\ UNCHANGED otherThanHelper

\* waitForDockerContainerToBeRunning, as SpecWait has it: a return, or an
\* exit with an error
WaitForContainer ==
    /\ helper.pc = "running"
    /\ CurrentStep.kind = "wait"
    /\ \E returns \in BOOLEAN :
          helper' = IF returns THEN NextStep ELSE Exit(TRUE)
    /\ UNCHANGED otherThanHelper

\* a slip: the check stops only when both an organization and a user exist
StopsOnOrgAndUser(org, user) == org /\ user

\* handleDbSanityCheck: if (org || user) exit
StopsOnRecords(org, user) == org \/ user

DbSanityCheck ==
    /\ helper.pc = "running"
    /\ CurrentStep.kind = "sanity"
    /\ LET org == \E row \in helper.db : row.table = "organization"
           user == \E row \in helper.db : row.table = "user"
       IN  helper' = IF StopsOnRecords(org, user)
                     THEN [Exit(FALSE) EXCEPT
                             !.sanity = [checked |-> TRUE, org |-> org, user |-> user]]
                     ELSE [NextStep EXCEPT
                             !.sanity = [checked |-> TRUE, org |-> org, user |-> user]]
    /\ UNCHANGED otherThanHelper

\* the exit at the end of a flow
Success ==
    /\ helper.pc = "running"
    /\ CurrentStep.kind = "success"
    /\ helper' = Exit(FALSE)
    /\ UNCHANGED otherThanHelper

\* the calls of handleInitialUserCreation, or of
\* handleInitialCompanyCreation, started so far
CallsOf(fn) == {i \in 1 .. Len(helper.calls) : helper.calls[i].fn = fn}

\* a call returns; the awaited chain goes on after the call it awaits
Returned(i) ==
    LET returned == [helper EXCEPT !.calls[i].pc = "returned"]
    IN  IF helper.calls[i].awaited THEN [returned EXCEPT !.step = @ + 1] ELSE returned

\* a call rejects.  The rejection of the awaited call reaches
\* main().catch(console.error).finally(() => process.exit(0)); that of a call
\* nobody awaits is an unhandled rejection, which ends the process or not
Rejected(i, crashes) ==
    IF helper.calls[i].awaited THEN Exit(FALSE)
    ELSE IF crashes THEN Exit(TRUE)
    ELSE [helper EXCEPT !.calls[i].pc = "rejected"]

\* a call of a function, at its first prompt
NewCall(fn, awaited) ==
    [fn |-> fn, awaited |-> awaited,
     pc |-> IF fn = "user" THEN "text" ELSE "shouldCreate"]

\* setupApiFromScratch: await handleInitialUserCreation(clackWrapper)
CallUserCreation ==
    /\ helper.pc = "running"
    /\ CurrentStep.kind = "user"
    /\ CallsOf("user") = {}
    /\ helper' = [helper EXCEPT !.calls = Append(@, NewCall("user", TRUE))]
    /\ UNCHANGED otherThanHelper

\* ! email.includes("@") ? `${email}@avise.com` : email
EmailFormatted(email) ==
    IF \E k \in 1 .. Len(email) : email[k] = "@" THEN email
    ELSE email \o <<"@", "avise.com">>

\* handleInitialUserCreation: the two text prompts
EnterUser(i) ==
    /\ helper.pc = "running"
    /\ helper.calls[i].fn = "user"
    /\ helper.calls[i].pc = "text"
    /\ \/ helper' = Exit(FALSE)
       \/ \E fullName \in FullNames, email \in Emails :
             helper' = [helper EXCEPT
                          !.calls[i] = [fn |-> "user", awaited |-> @.awaited,
                                        pc |-> "confirm", fullName |-> fullName,
                                        emailFormatted |-> EmailFormatted(email)]]
    /\ UNCHANGED otherThanHelper

\* the name and the address a call of handleInitialUserCreation holds
Entered(i) ==
    [fullName |-> helper.calls[i].fullName, email |-> helper.calls[i].emailFormatted]

\* handleInitialUserCreation: the confirmation; after a no the function calls
\* itself without awaiting the call and goes on
ConfirmUser(i) ==
    /\ helper.pc = "running"
    /\ helper.calls[i].fn = "user"
    /\ helper.calls[i].pc = "confirm"
    /\ \E answer \in Answers :
          CASE answer = "cancel" -> helper' = Exit(FALSE)
            [] answer = "yes" ->
                  helper' = [helper EXCEPT !.calls[i].pc = "write",
                                           !.approved = @ \cup {Entered(i)}]
            [] answer = "no" ->
                  /\ Cardinality(CallsOf("user")) < MaxCalls
                  /\ helper' = [helper EXCEPT
                                  !.calls = Append([@ EXCEPT ![i].pc = "write"],
                                                   NewCall("user", FALSE)),
                                  !.declined = @ \cup {Entered(i)}]
    /\ UNCHANGED otherThanHelper

\* the rows of the transaction of writeUserToDb
UserRows(fullName, emailAddress) ==
    { [table |-> "organization", id |-> ORG_ID],
      [table |-> "user", fullName |-> fullName, email |-> emailAddress] }

\* a row of the database has the primary key of the row; the id of a user is
\* a new cuid, and its email is unique only within a company
RowConflicts(row) ==
    /\ row.table # "user"
    /\ \E other \in helper.db : other.table = row.table /\ other.id = row.id

\* writeUserToDb(fullName, emailFormatted): the transaction commits both
\* rows, or it rejects and writes none
WriteUserToDb(i) ==
    /\ helper.pc = "running"
    /\ helper.calls[i].fn = "user"
    /\ helper.calls[i].pc = "write"
    /\ LET rows == UserRows(helper.calls[i].fullName, helper.calls[i].emailFormatted)
       IN  \E commits, crashes \in BOOLEAN :
              helper' =
                 IF commits /\ ~\E row \in rows : RowConflicts(row)
                 THEN [Returned(i) EXCEPT
                         !.db = @ \cup rows,
                         !.writes = Append(@, [seed |-> "user",
                                               fullName |-> helper.calls[i].fullName,
                                               email |-> helper.calls[i].emailFormatted])]
                 ELSE Rejected(i, crashes)
    /\ UNCHANGED otherThanHelper

\* setupApiFromScratch: await handleInitialCompanyCreation(clackWrapper)
CallCompanyCreation ==
    /\ helper.pc = "running"
    /\ CurrentStep.kind = "company"
    /\ CallsOf("company") = {}
    /\ helper' = [helper EXCEPT !.calls = Append(@, NewCall("company", TRUE))]
    /\ UNCHANGED otherThanHelper

\* handleInitialCompanyCreation: the prompt shouldCreate
ShouldCreateCompany(i) ==
    /\ helper.pc = "running"
    /\ helper.calls[i].fn = "company"
    /\ helper.calls[i].pc = "shouldCreate"
    /\ \E answer \in Answers :
          helper' = CASE answer = "cancel" -> Exit(FALSE)
                      [] answer = "no" -> Returned(i)
                      [] answer = "yes" -> [helper EXCEPT !.calls[i].pc = "text"]
    /\ UNCHANGED otherThanHelper

\* names typed at the prompt for the company: "Avise Inc."
CompanyNamesTyped == { <<"A", "v", "i", "s", "e", " ", "I", "n", "c", ".">> }

\* the characters the class [-a-zA-Z0-9\s] keeps
CompanyIdCharacters == {"A", "I", "a", "c", "e", "i", "n", "s", "v", "-", " "}

\* companyName.replace(...).trim().replace(/\s+/g, "-").substring(0, 25)
\* .toLowerCase()
CompanyIdOf(companyName) ==
    LET kept == SelectSeq(companyName, LAMBDA ch : ch \in CompanyIdCharacters)
        hyphened == KebabFrom(Trim(kept), <<>>, FALSE)
        cut == SubSeq(hyphened, 1, Min(25, Len(hyphened)))
    IN  [k \in 1 .. Len(cut) |-> LowerOf(cut[k])]

\* handleInitialCompanyCreation: the text prompt and the id of the company
EnterCompany(i) ==
    /\ helper.pc = "running"
    /\ helper.calls[i].fn = "company"
    /\ helper.calls[i].pc = "text"
    /\ \/ helper' = Exit(FALSE)
       \/ \E companyName \in CompanyNamesTyped :
             helper' = [helper EXCEPT
                          !.calls[i] = [fn |-> "company", awaited |-> @.awaited,
                                        pc |-> "confirm", companyName |-> companyName,
                                        companyId |-> CompanyIdOf(companyName)]]
    /\ UNCHANGED otherThanHelper

\* handleInitialCompanyCreation: the confirmation; after a no the function
\* calls itself without awaiting the call and goes on
ConfirmCompany(i) ==
    /\ helper.pc = "running"
    /\ helper.calls[i].fn = "company"
    /\ helper.calls[i].pc = "confirm"
    /\ \E answer \in Answers :
          CASE answer = "cancel" -> helper' = Exit(FALSE)
            [] answer = "yes" -> helper' = [helper EXCEPT !.calls[i].pc = "create"]
            [] answer = "no" ->
                  /\ Cardinality(CallsOf("company")) < MaxCalls
                  /\ helper' = [helper EXCEPT
                                  !.calls = Append([@ EXCEPT ![i].pc = "create"],
                                                   NewCall("company", FALSE))]
    /\ UNCHANGED otherThanHelper

\* handleInitialCompanyCreation: the user is looked up and the company is
\* created under the organization ORG_ID
CreateInitialCompany(i) ==
    /\ helper.pc = "running"
    /\ helper.calls[i].fn = "company"
    /\ helper.calls[i].pc = "create"
    /\ LET row == [table |-> "company", id |-> helper.calls[i].companyId,
                   name |-> helper.calls[i].companyName, organizationId |-> ORG_ID]
           user == \E other \in helper.db : other.table = "user"
           organization == \E other \in helper.db :
                               other.table = "organization" /\ other.id = ORG_ID
       IN  \E commits, crashes \in BOOLEAN :
              helper' =
                 IF ~user THEN Exit(TRUE)
                 ELSE IF commits /\ organization /\ ~RowConflicts(row)
                 THEN [Returned(i) EXCEPT
                         !.db = @ \cup {row},
                         !.writes = Append(@, [seed |-> "company",
                                               id |-> helper.calls[i].companyId])]
                 ELSE Rejected(i, crashes)
    /\ UNCHANGED otherThanHelper

NextHelper ==
    \/ AnswerConfirm
    \/ RunCommand
    \/ PnpmInstall
    \/ DockerPull
    \/ WaitForContainer
    \/ DbSanityCheck
    \/ Success
    \/ CallUserCreation
    \/ CallCompanyCreation
    \/ \E i \in 1 .. Len(helper.calls) :
          \/ EnterUser(i)
          \/ ConfirmUser(i)
          \/ WriteUserToDb(i)
          \/ ShouldCreateCompany(i)
          \/ EnterCompany(i)
          \/ ConfirmCompany(i)
          \/ CreateInitialCompany(i)

SpecHelper == InitHelper /\ [][NextHelper]_vars

\* the commands the script has run
CommandsRun == {helper.commands[k] : k \in 1 .. Len(helper.commands)}

\* the prompts the user has answered with yes
PromptsConfirmed ==
    {helper.confirmed[k].prompt :
        k \in {n \in 1 .. Len(helper.confirmed) : helper.confirmed[n].answer = "yes"}}

\* C25 - a pull that fails with i/o timeout is tried again: the script makes
\* at most three pulls, and it ends on a pull that timed out only after the
\* third.
PullRetriedOnTimeout ==
    helper.pc # "idle" =>
        /\ helper.pulls <= 3
        /\ (/\ helper.pc = "exited"
            /\ CurrentStep.kind = "pull"
            /\ helper.pullError = "i/o timeout") => helper.pulls = 3

\* C26 - the user of every write of writeUserToDb has a full name and an
\* email address the user of the script confirmed.
OnlyConfirmedUserWritten ==
    helper.pc # "idle" =>
        \A k \in 1 .. Len(helper.writes) :
            helper.writes[k].seed = "user" =>
                [fullName |-> helper.writes[k].fullName,
                 email |-> helper.writes[k].email] \in helper.approved

\* C27 - in the flow completeRefresh, docker compose down -v has run only
\* after a yes to the ready prompt and to both confirmations of the deletion;
\* the script has not run it when it ended at one of the three prompts.
RefreshDeletesAfterConsent ==
    (helper.pc # "idle" /\ helper.flow = "completeRefresh") =>
        /\ "docker compose down -v" \in CommandsRun =>
              {"ready", "understand", "doublyConfirm"} \subseteq PromptsConfirmed
        /\ (helper.pc = "exited" /\ CurrentStep.kind = "confirm") =>
              /\ helper.commands = <<>>
              /\ helper.db \in SUBSET SeedRows

\* C27 witness: the flow completeRefresh has run docker compose down -v
RefreshDeletesAfterConsentWitness ==
    /\ helper.pc # "idle"
    /\ helper.flow = "completeRefresh"
    /\ "docker compose down -v" \in CommandsRun
    /\ Len(helper.confirmed) = 3

\* C28 - a seed record is written only after handleDbSanityCheck has found
\* neither an organization nor a user; when it has found one, the script has
\* ended and has written nothing.
SeedOnlyAfterEmptyCheck ==
    helper.pc # "idle" =>
        /\ helper.writes # <<>> =>
              /\ helper.sanity.checked
              /\ ~helper.sanity.org
              /\ ~helper.sanity.user
        /\ (helper.sanity.org \/ helper.sanity.user) =>
              /\ helper.pc = "exited"
              /\ helper.writes = <<>>

\* C28 witness: the initial user has been written to a database that the
\* removal of the docker volumes did not empty
SeedOnlyAfterEmptyCheckWitness ==
    /\ helper.pc # "idle"
    /\ ~helper.composeDb
    /\ helper.writes # <<>>
    /\ helper.writes[1].seed = "user"

====
